---- MODULE Spec2Model ----
(***************************************************************************)
(* Paper-Vault: the multi-source literature search aggregator              *)
(* (src/app/api/arxiv/route.ts).  One search request is a state machine:   *)
(* native-feed search, works-index paging, cross-source linking, merge,    *)
(* final deduplication, citation enrichment, ranking and page slicing.     *)
(*                                                                         *)
(* Strings are sequences of one-character strings, so that the code's      *)
(* normalisers (trim, lower-casing, regular-expression replacements) are   *)
(* computed character by character.  Timestamps are counted in days, not   *)
(* milliseconds (every date of the model is day-aligned and the code only  *)
(* compares and subtracts them).                                           *)
(***************************************************************************)
EXTENDS Integers, Sequences, FiniteSets, TLC

(***************************************************************************)
(* Characters and strings                                                  *)
(***************************************************************************)

\* The characters of the model, in ascending UTF-16 code-unit order.
AsciiOrder ==
  << " ", "!", "\"", "#", "(", ")", ",", "-", ".", "/",
     "0", "1", "2", "3", "4", "5", "6", "7", "8", "9",
     ":", "?",
     "A", "B", "C", "D", "E", "F", "G", "H", "I", "J", "K", "L", "M",
     "N", "O", "P", "Q", "R", "S", "T", "U", "V", "W", "X", "Y", "Z",
     "_",
     "a", "b", "c", "d", "e", "f", "g", "h", "i", "j", "k", "l", "m",
     "n", "o", "p", "q", "r", "s", "t", "u", "v", "w", "x", "y", "z",
     "~" >>

Alphabet == { AsciiOrder[i] : i \in 1..Len(AsciiOrder) }

\* Position of a character in code-unit order (order-preserving stand-in for
\* the code unit itself).
Code == [ c \in Alphabet |-> CHOOSE i \in 1..Len(AsciiOrder) : AsciiOrder[i] = c ]

UpperChars == { AsciiOrder[i] : i \in Code["A"]..Code["Z"] }
LowerChars == { AsciiOrder[i] : i \in Code["a"]..Code["z"] }
DigitChars == { AsciiOrder[i] : i \in Code["0"]..Code["9"] }

\* String.prototype.toLowerCase, per character.
LowerChar ==
  [ c \in Alphabet |->
      IF c \in UpperChars THEN AsciiOrder[Code[c] + (Code["a"] - Code["A"])] ELSE c ]

\* \s of the regular expressions (the model's only white space is the blank).
IsSpace(c) == c = " "
\* \d and \w of the regular expressions.
IsDigit(c) == c \in DigitChars
IsWord(c) == c \in UpperChars \cup LowerChars \cup DigitChars \cup {"_"}

ToLower(s) == [ i \in 1..Len(s) |-> LowerChar[s[i]] ]

\* s.slice(from) with 1-based from; empty when from is past the end.
Drop(s, n) == IF n >= Len(s) THEN << >> ELSE SubSeq(s, n + 1, Len(s))
Take(s, n) == IF n <= 0 THEN << >> ELSE SubSeq(s, 1, IF n > Len(s) THEN Len(s) ELSE n)

\* String.prototype.trim.
Trim(s) ==
  LET keep == { i \in 1..Len(s) : ~IsSpace(s[i]) }
  IN  IF keep = {} THEN << >>
      ELSE LET lo == CHOOSE i \in keep : \A j \in keep : i <= j
               hi == CHOOSE i \in keep : \A j \in keep : i >= j
           IN  SubSeq(s, lo, hi)

\* Whether pat occurs in s starting at index i (1-based).
MatchesAt(s, i, pat) ==
  /\ i >= 1
  /\ i + Len(pat) - 1 <= Len(s)
  /\ \A k \in 1..Len(pat) : s[i + k - 1] = pat[k]

\* First index at which pat occurs in s, 0 when it does not.
IndexOf(s, pat) ==
  LET hits == { i \in 1..(Len(s) - Len(pat) + 1) : MatchesAt(s, i, pat) }
  IN  IF hits = {} THEN 0 ELSE CHOOSE i \in hits : \A j \in hits : i <= j

\* First index of character c in s, 0 when absent.
IndexOfChar(s, c) == IndexOf(s, << c >>)

\* a < b for strings, as JavaScript's < compares them (code units, then length).
RECURSIVE StrLess(_, _)
StrLess(a, b) ==
  IF b = << >> THEN FALSE
  ELSE IF a = << >> THEN TRUE
  ELSE IF a[1] # b[1] THEN Code[a[1]] < Code[b[1]]
  ELSE StrLess(Tail(a), Tail(b))

\* Filter of a string by a set of characters.
KeepChars(s, ok) == SelectSeq(s, LAMBDA c : c \in ok)

\* replace(/\s+/g, " "): every run of white space becomes one blank.
RECURSIVE CollapseSpaces(_)
CollapseSpaces(s) ==
  IF s = << >> THEN << >>
  ELSE IF IsSpace(s[1])
       THEN IF Len(s) >= 2 /\ IsSpace(s[2])
            THEN CollapseSpaces(Tail(s))
            ELSE << " " >> \o CollapseSpaces(Tail(s))
       ELSE << s[1] >> \o CollapseSpaces(Tail(s))

(***************************************************************************)
(* Identity normalisers  (route.ts 17-55, 130-140)                         *)
(***************************************************************************)

S_http == << "h", "t", "t", "p", ":", "/", "/" >>
S_https == << "h", "t", "t", "p", "s", ":", "/", "/" >>
S_arxivAbs == << "a", "r", "x", "i", "v", ".", "o", "r", "g", "/", "a", "b", "s", "/" >>
S_arxivPdf == << "a", "r", "x", "i", "v", ".", "o", "r", "g", "/", "p", "d", "f", "/" >>
S_dotPdf == << ".", "p", "d", "f" >>
S_doiOrg == << "d", "o", "i", ".", "o", "r", "g", "/" >>
S_ten == << "1", "0", "." >>
S_abs == << "/", "a", "b", "s", "/" >>
S_pdf == << "/", "p", "d", "f", "/" >>

\* The least element of a non-empty set of indices.
FirstOf(is) == CHOOSE i \in is : \A j \in is : i <= j

\* Cut s at the first occurrence of character c (replace(/c.*$/, "")).
CutAt(s, c) ==
  LET i == IndexOfChar(s, c) IN IF i = 0 THEN s ELSE Take(s, i - 1)

\* replace(/^http:\/\//i, "https://")
HttpsOf(t) ==
  IF MatchesAt(ToLower(t), 1, S_http) THEN S_https \o Drop(t, Len(S_http)) ELSE t

\* replace(/\/$/, "")
DropSlash(c) == IF c # << >> /\ c[Len(c)] = "/" THEN Take(c, Len(c) - 1) ELSE c

normUrl(u) == ToLower(DropSlash(CutAt(CutAt(HttpsOf(Trim(u)), "#"), "?")))

normTitle(t) ==
  Trim(KeepChars(CollapseSpaces(ToLower(t)), LowerChars \cup DigitChars \cup {" "}))

\* replace(/v\d+$/i, "") on a trimmed id: the leftmost "v" followed only by
\* digits to the end.
StripVersion(t) ==
  LET vs == { i \in 1..(Len(t) - 1) :
                /\ LowerChar[t[i]] = "v"
                /\ \A j \in (i + 1)..Len(t) : IsDigit(t[j]) }
  IN  IF vs = {} THEN t ELSE Take(t, FirstOf(vs) - 1)

stripArxivVersion(id) == StripVersion(Trim(id))

\* The optional (?:\.pdf)? before the end of the match.
DropDotPdf(rest) ==
  IF Len(rest) > Len(S_dotPdf) /\ MatchesAt(rest, Len(rest) - Len(S_dotPdf) + 1, S_dotPdf)
  THEN Take(rest, Len(rest) - Len(S_dotPdf))
  ELSE rest

\* match(/arxiv\.org\/(abs|pdf)\/([^\/]+?)(?:\.pdf)?$/) on a normalised URL s.
ArxivIdIn(s) ==
  LET starts == { i \in 1..Len(s) :
                    /\ MatchesAt(s, i, S_arxivAbs) \/ MatchesAt(s, i, S_arxivPdf)
                    /\ i + Len(S_arxivAbs) <= Len(s)
                    /\ \A j \in (i + Len(S_arxivAbs))..Len(s) : s[j] # "/" }
  IN  IF starts = {} THEN << >>
      ELSE DropDotPdf(Drop(s, FirstOf(starts) + Len(S_arxivAbs) - 1))

extractArxivIdFromUrl(u) == ArxivIdIn(normUrl(u))

\* A character that ends the DOI: [^\s?#]
DoiStop(c) == IsSpace(c) \/ c = "?" \/ c = "#"

\* The DOI of s that starts at index from: up to the first stop character.
DoiFrom(s, from) ==
  LET ends == { j \in (from + Len(S_ten))..Len(s) : DoiStop(s[j]) }
  IN  SubSeq(s, from, IF ends = {} THEN Len(s) ELSE FirstOf(ends) - 1)

\* match(/doi\.org\/(10\.[^\s?#]+)/i) on a trimmed URL s.
DoiIn(s) ==
  LET starts == { i \in 1..Len(s) :
                    /\ MatchesAt(ToLower(s), i, S_doiOrg \o S_ten)
                    /\ i + Len(S_doiOrg \o S_ten) <= Len(s)
                    /\ ~DoiStop(s[i + Len(S_doiOrg \o S_ten)]) }
  IN  IF starts = {} THEN << >> ELSE DoiFrom(s, FirstOf(starts) + Len(S_doiOrg))

extractDoiFromUrl(u) == DoiIn(Trim(u))

(***************************************************************************)
(* Small helpers                                                            *)
(***************************************************************************)

Min(a, b) == IF a < b THEN a ELSE b
Max(a, b) == IF a > b THEN a ELSE b

\* Array.prototype.slice(from, to) with 0-based from and exclusive to.
Slice(s, from, to) ==
  IF from >= Len(s) \/ to <= from THEN << >>
  ELSE SubSeq(s, from + 1, Min(to, Len(s)))

\* Array.prototype.join.
RECURSIVE Join(_, _)
Join(parts, sep) ==
  IF parts = << >> THEN << >>
  ELSE IF Len(parts) = 1 THEN parts[1]
  ELSE parts[1] \o sep \o Join(Tail(parts), sep)

\* String.prototype.split on one character (empty parts included).
RECURSIVE SplitOn(_, _)
SplitOn(s, c) ==
  LET i == IndexOfChar(s, c)
  IN  IF i = 0 THEN << s >> ELSE << Take(s, i - 1) >> \o SplitOn(Drop(s, i), c)

\* split(/\s+/) of a trimmed, non-empty string: its maximal runs of
\* non-blank characters.
SplitWs(s) == SelectSeq(SplitOn(s, " "), LAMBDA t : t # << >>)

\* Elements of a sequence in first-occurrence order (Array.from(new Set(xs))).
Uniq(xs) ==
  LET firsts == { i \in 1..Len(xs) : \A j \in 1..(i - 1) : xs[j] # xs[i] }
  IN  [ k \in 1..Cardinality(firsts) |->
          xs[CHOOSE i \in firsts : Cardinality({ j \in firsts : j < i }) = k - 1] ]

Range(s) == { s[i] : i \in 1..Len(s) }

\* Array.prototype.sort with a consistent comparator; Before(a, b) is
\* "compare(a, b) < 0".  The engine's sort is stable, so the element at index i
\* lands after every element that sorts before it and after every earlier
\* element that compares equal to it.
StableSort(s, Before(_, _)) ==
  LET n == Len(s)
      rank == [ i \in 1..n |->
                  1 + Cardinality({ j \in 1..n :
                        \/ Before(s[j], s[i])
                        \/ ~Before(s[i], s[j]) /\ j < i }) ]
  IN  [ k \in 1..n |-> s[CHOOSE i \in 1..n : rank[i] = k] ]

(***************************************************************************)
(* dateMs (route.ts 17-20)                                                 *)
(***************************************************************************)

DigitValue(c) == Code[c] - Code["0"]

LeapDaysBefore(y) == ((y - 1) \div 4) - ((y - 1) \div 100) + ((y - 1) \div 400)

EpochYear == 1970

\* Date.parse of a four-digit year ("2021" is 2021-01-01T00:00:00Z), counted in
\* days since the epoch; any other string of the model does not parse.
DateParses(s) == Len(s) = 4 /\ \A i \in 1..4 : IsDigit(s[i])

dateMs(s) ==
  IF DateParses(s)
  THEN LET y == 1000 * DigitValue(s[1]) + 100 * DigitValue(s[2])
                + 10 * DigitValue(s[3]) + DigitValue(s[4])
       IN  365 * (y - EpochYear) + LeapDaysBefore(y) - LeapDaysBefore(EpochYear)
  ELSE 0

(***************************************************************************)
(* interleave (route.ts 22-30)                                             *)
(***************************************************************************)

\* One list after the other.
interleaveListByList(a, b) == a \o b

RECURSIVE interleave(_, _)
interleave(a, b) ==
  IF a = << >> THEN b
  ELSE IF b = << >> THEN a
  ELSE << a[1], b[1] >> \o interleave(Tail(a), Tail(b))

(***************************************************************************)
(* reconstructAbstract (route.ts 57-71)                                    *)
(* inv is the inverted index as its entries in enumeration order:          *)
(* << <<word, <<pos, ...>> >>, ... >>                                       *)
(***************************************************************************)

RECURSIVE InvPositions(_)
InvPositions(inv) ==
  IF inv = << >> THEN << >>
  ELSE [ i \in 1..Len(inv[1][2]) |-> << inv[1][2][i], inv[1][1] >> ]
       \o InvPositions(Tail(inv))

\* An order of the pairs by descending position.
PosDescending(a, b) == a[1] > b[1]

PosBefore(a, b) == a[1] < b[1]

reconstructAbstract(inv) ==
  LET positions == StableSort(InvPositions(inv), PosBefore)
  IN  Join([ i \in 1..Len(positions) |-> positions[i][2] ], << " " >>)

(***************************************************************************)
(* authorMatchesQuery (route.ts 73-128)                                    *)
(***************************************************************************)

\* \b at the gap before index p of a (p in 1..Len(a)+1).
WordBoundary(a, p) ==
  LET before == p >= 2 /\ p - 1 <= Len(a) /\ IsWord(a[p - 1])
      after == p >= 1 /\ p <= Len(a) /\ IsWord(a[p])
  IN  before # after

\* A whole-word test that accepts the token anywhere in the author string.
ContainsAnywhere(a, t) == \E i \in 1..Len(a) : MatchesAt(a, i, t)

\* new RegExp(`\\b${t}\\b`).test(a)
WholeWordIn(a, t) ==
  \E i \in 1..Len(a) :
    WordBoundary(a, i) /\ MatchesAt(a, i, t) /\ WordBoundary(a, i + Len(t))

\* new RegExp(`\\b${t}\\.?\\b`).test(a)
InitialIn(a, t) ==
  \E i \in 1..Len(a) :
    /\ WordBoundary(a, i)
    /\ MatchesAt(a, i, t)
    /\ \/ WordBoundary(a, i + Len(t))
       \/ MatchesAt(a, i + Len(t), << "." >>) /\ WordBoundary(a, i + Len(t) + 1)

givenTokenMatches(author, t) ==
  IF t = << >> THEN TRUE
  ELSE IF Len(t) >= 2 THEN WholeWordIn(author, t)
  ELSE InitialIn(author, t)

QueryTokens(q) ==
  LET raw == ToLower(Trim(q))
      cleaned == [ i \in 1..Len(SplitWs(raw)) |->
                     KeepChars(SplitWs(raw)[i], LowerChars \cup DigitChars \cup {"-"}) ]
  IN  SelectSeq(cleaned, LAMBDA t : t # << >>)

AuthorParts(authors) ==
  LET parts == SplitOn(authors, ",")
      trimmed == [ i \in 1..Len(parts) |-> ToLower(Trim(parts[i])) ]
  IN  SelectSeq(trimmed, LAMBDA t : t # << >>)

authorMatchesQuery(authors, q) ==
  LET toks == QueryTokens(q)
  IN  IF toks = << >> THEN TRUE
      ELSE LET surname == toks[Len(toks)]
               givens == Take(toks, Len(toks) - 1)
               parts == AuthorParts(authors)
           IN  \E k \in 1..Len(parts) :
                 /\ WholeWordIn(parts[k], surname)
                 /\ \A g \in 1..Len(givens) : givenTokenMatches(parts[k], givens[g])

(***************************************************************************)
(* Records.  A MixedPaper (route.ts 3-15) is a record with the fields      *)
(* arxivId, title, authors, summary, published, absUrl, pdfUrl, doi and    *)
(* source; citationCount and influentialCitationCount are fields of the    *)
(* record only when they hold a number (JSON drops an undefined field).    *)
(***************************************************************************)

S_comma == << ",", " " >>
S_idKey == << "i", "d", ":" >>
S_urlKey == << "u", "r", "l", ":" >>
S_titleKey == << "t", "i", "t", "l", "e", ":" >>
S_openalex == << "o", "p", "e", "n", "a", "l", "e", "x", ":" >>
S_untitled == << "(", "u", "n", "t", "i", "t", "l", "e", "d", ")" >>
S_OpenAlex == << "O", "p", "e", "n", "A", "l", "e", "x" >>
S_DOI == << "D", "O", "I", ":" >>
S_ARXIV == << "A", "R", "X", "I", "V", ":" >>
S_URL == << "U", "R", "L", ":" >>

HasCit(p) == "citationCount" \in DOMAIN p
HasInf(p) == "influentialCitationCount" \in DOMAIN p
\* p.citationCount ?? 0 and p.influentialCitationCount ?? 0
CitOrZero(p) == IF HasCit(p) THEN p.citationCount ELSE 0
InfOrZero(p) == IF HasInf(p) THEN p.influentialCitationCount ELSE 0

\* a || b for strings.
OrElse(a, b) == IF a # << >> THEN a ELSE b

(***************************************************************************)
(* Native feed entries (route.ts 155-168, 540-558).  An entry of the feed  *)
(* is given by the texts of its tags, as textBetween and allBetween return *)
(* them (trimmed): id, title, summary, published, updated, names, doi.     *)
(***************************************************************************)

\* idUrl.split("/abs/")[1] ?? idUrl
ArxivIdOf(idUrl) ==
  LET i == IndexOf(idUrl, S_abs)
  IN  IF i = 0 THEN idUrl
      ELSE LET rest == Drop(idUrl, i + Len(S_abs) - 1)
               j == IndexOf(rest, S_abs)
           IN  IF j = 0 THEN rest ELSE Take(rest, j - 1)

\* idUrl.replace("/abs/", "/pdf/"): the first occurrence only.
PdfUrlOf(idUrl) ==
  LET i == IndexOf(idUrl, S_abs)
  IN  IF i = 0 THEN idUrl
      ELSE Take(idUrl, i - 1) \o S_pdf \o Drop(idUrl, i + Len(S_abs) - 1)

ParseEntry(e) ==
  [ arxivId |-> ArxivIdOf(e.id),
    title |-> CollapseSpaces(e.title),
    summary |-> CollapseSpaces(e.summary),
    published |-> e.published,
    authors |-> Join(e.names, S_comma),
    absUrl |-> e.id,
    pdfUrl |-> PdfUrlOf(e.id),
    doi |-> e.doi,
    source |-> "arxiv" ]

\* The timestamp that matches the feed's sort mode (route.ts 553-555).
EntrySortTs(e, sortBy) ==
  dateMs(IF sortBy = "lastUpdatedDate"
         THEN OrElse(e.updated, e.published)
         ELSE OrElse(e.published, e.updated))

\* arxivSortTs after the loop over the entries: the last entry with an id wins.
ArxivSortTsOf(entries, sortBy) ==
  LET ids == { ArxivIdOf(entries[i].id) : i \in 1..Len(entries) }
  IN  [ id \in ids |->
          LET last == CHOOSE i \in 1..Len(entries) :
                        /\ ArxivIdOf(entries[i].id) = id
                        /\ \A j \in (i + 1)..Len(entries) : ArxivIdOf(entries[j].id) # id
          IN  EntrySortTs(entries[last], sortBy) ]

(***************************************************************************)
(* Works-index rows (route.ts 411-446).  A row is given by the fields the  *)
(* mapping reads: id, display_name, names (the authorships' display        *)
(* names), publication_date, inv (abstract_inverted_index), landing        *)
(* (primary_location.landing_page_url) and doi.                            *)
(***************************************************************************)

MapWork(it) ==
  LET id == Trim(it.id)
      title == Trim(it.display_name)
      names == SelectSeq([ i \in 1..Len(it.names) |-> Trim(it.names[i]) ],
                         LAMBDA n : n # << >>)
      authors == Join(names, S_comma)
      landing == OrElse(Trim(it.landing), OrElse(Trim(it.doi), Trim(it.id)))
      doi == OrElse(extractDoiFromUrl(it.doi), extractDoiFromUrl(landing))
  IN  [ arxivId |-> IF id # << >> THEN S_openalex \o id ELSE S_openalex \o title,
        title |-> OrElse(title, S_untitled),
        authors |-> OrElse(authors, S_OpenAlex),
        summary |-> reconstructAbstract(it.inv),
        published |-> Trim(it.publication_date),
        doi |-> doi,
        absUrl |-> landing,
        pdfUrl |-> landing,
        source |-> "openalex" ]

\* sliced.map(...).filter((x) => x.absUrl)
MapWorks(rows) ==
  SelectSeq([ i \in 1..Len(rows) |-> MapWork(rows[i]) ], LAMBDA x : x.absUrl # << >>)

(***************************************************************************)
(* The seen set and the cross-source linker (route.ts 561-629)             *)
(***************************************************************************)

\* Keys one native record adds to seen (route.ts 563-574).
SeenKeysOf(p) ==
  LET v == ToLower(p.arxivId)
      nv == ToLower(stripArxivVersion(p.arxivId))
      t == normTitle(p.title)
  IN  (IF p.arxivId # << >> THEN { S_idKey \o v } ELSE {})
      \cup (IF p.arxivId # << >> /\ nv # << >> /\ nv # v THEN { S_idKey \o nv } ELSE {})
      \cup (IF p.absUrl # << >> THEN { S_urlKey \o normUrl(p.absUrl) } ELSE {})
      \cup (IF p.pdfUrl # << >> THEN { S_urlKey \o normUrl(p.pdfUrl) } ELSE {})
      \cup (IF t # << >> THEN { S_titleKey \o t } ELSE {})

SeenOf(ps) == UNION { SeenKeysOf(ps[i]) : i \in 1..Len(ps) }

\* extractArxivIdFromUrl(p.absUrl) || extractArxivIdFromUrl(p.pdfUrl)
LinkedIdRaw(p) == OrElse(extractArxivIdFromUrl(p.absUrl), extractArxivIdFromUrl(p.pdfUrl))

\* oaArxivIds (route.ts 586-590)
OaArxivIds(raw) ==
  LET ids == [ i \in 1..Len(raw) |-> LinkedIdRaw(raw[i]) ]
  IN  SelectSeq(ids, LAMBDA x : x # << >>)

\* The id list fetchArxivByIds asks for (route.ts 143).
LookupIds(ids) ==
  Uniq(SelectSeq([ i \in 1..Len(ids) |-> stripArxivVersion(Trim(ids[i])) ],
                 LAMBDA x : x # << >>))

\* oaArxivMap (route.ts 594-598): key -> the last returned record with that key.
OaArxivMapOf(found) ==
  LET keyOf(ap) == ToLower(stripArxivVersion(ap.arxivId))
      keys == { keyOf(found[i]) : i \in 1..Len(found) } \ { << >> }
  IN  [ k \in keys |->
          found[CHOOSE i \in 1..Len(found) :
                  /\ keyOf(found[i]) = k
                  /\ \A j \in (i + 1)..Len(found) : keyOf(found[j]) # k] ]

\* A linker that keeps the works record when the lookup returned nothing
\* for its native paper.
LinkStepKeepsWrapper(st, p, oaArxivMap) ==
  LET maybe == ToLower(stripArxivVersion(LinkedIdRaw(p)))
  IN  IF maybe # << >> /\ maybe \in DOMAIN oaArxivMap
      THEN [ st EXCEPT !.kept = Append(@, oaArxivMap[maybe]) ]
      ELSE [ st EXCEPT !.kept = Append(@, p) ]

\* One turn of the loop of route.ts 602-628; st = [kept, seen].
LinkStep(st, p, oaArxivMap) ==
  LET maybeRaw == LinkedIdRaw(p)
      maybe == IF maybeRaw # << >> THEN ToLower(stripArxivVersion(maybeRaw)) ELSE << >>
      absN == normUrl(p.absUrl)
      pdfN == normUrl(p.pdfUrl)
      t == normTitle(p.title)
  IN  IF maybe # << >>
      THEN IF maybe \in DOMAIN oaArxivMap
           THEN [ st EXCEPT !.kept = Append(@, oaArxivMap[maybe]) ]
           ELSE st
      ELSE IF \/ absN # << >> /\ (S_urlKey \o absN) \in st.seen
              \/ pdfN # << >> /\ (S_urlKey \o pdfN) \in st.seen
              \/ t # << >> /\ (S_titleKey \o t) \in st.seen
           THEN st
           ELSE [ kept |-> Append(st.kept, p),
                  seen |-> st.seen
                           \cup (IF absN # << >> THEN { S_urlKey \o absN } ELSE {})
                           \cup (IF pdfN # << >> THEN { S_urlKey \o pdfN } ELSE {})
                           \cup (IF t # << >> THEN { S_titleKey \o t } ELSE {}) ]

RECURSIVE LinkLoop(_, _, _)
LinkLoop(st, raw, oaArxivMap) ==
  IF raw = << >> THEN st
  ELSE LinkLoop(LinkStep(st, raw[1], oaArxivMap), Tail(raw), oaArxivMap)

\* openalex of route.ts 600-628.
LinkAndFilter(raw, found, seen) ==
  LinkLoop([ kept |-> << >>, seen |-> seen ], raw, OaArxivMapOf(found)).kept

\* A filter that removes nothing in any field.
AuthorFilterSkipped(list, field, qq) == list

\* field === "author" ? list.filter(authorMatchesQuery) : list  (route.ts 559, 629)
AuthorFiltered(list, field, qq) ==
  IF field = "author"
  THEN SelectSeq(list, LAMBDA p : authorMatchesQuery(p.authors, qq))
  ELSE list

(***************************************************************************)
(* Merge (route.ts 631-644)                                                *)
(***************************************************************************)

MergeTs(p, arxivSortTs) ==
  IF p.source = "arxiv" /\ p.arxivId \in DOMAIN arxivSortTs
  THEN arxivSortTs[p.arxivId]
  ELSE dateMs(p.published)

Mixed(papersFiltered, openalexFiltered, sortBy, sortOrder, arxivSortTs) ==
  IF sortBy = "relevance"
  THEN interleave(papersFiltered, openalexFiltered)
  ELSE LET before(a, b) ==
             IF sortOrder = "ascending"
             THEN MergeTs(a, arxivSortTs) < MergeTs(b, arxivSortTs)
             ELSE MergeTs(b, arxivSortTs) < MergeTs(a, arxivSortTs)
       IN  StableSort(papersFiltered \o openalexFiltered, before)

(***************************************************************************)
(* Final deduplication pass (route.ts 646-689).                            *)
(* A looked-up slot is undefined (no hit), a 0-based index of out, or the  *)
(* empty string: `(key && keyToIdx.get(key)) ?? ...` yields "" for an      *)
(* empty key, and "" is not nullish.  out[""] is then a property of the    *)
(* array object, not one of its elements; the state keeps it in prop.      *)
(***************************************************************************)

HitUndefined == [ kind |-> "undefined", i |-> 0 ]
HitEmpty == [ kind |-> "empty", i |-> 0 ]
HitIndex(n) == [ kind |-> "index", i |-> n ]

KeyIdOf(p) == IF p.arxivId # << >> THEN S_idKey \o ToLower(p.arxivId) ELSE << >>
KeyUrlOf(p) == IF p.absUrl # << >> THEN S_urlKey \o normUrl(p.absUrl) ELSE << >>
KeyTitleOf(p) == IF p.title # << >> THEN S_titleKey \o normTitle(p.title) ELSE << >>

\* key && keyToIdx.get(key)
KeyTerm(keyToIdx, key) ==
  IF key = << >> THEN HitEmpty
  ELSE IF key \in DOMAIN keyToIdx THEN keyToIdx[key]
  ELSE HitUndefined

\* a ?? b ?? c ?? undefined
HitIdxOf(keyToIdx, p) ==
  LET a == KeyTerm(keyToIdx, KeyIdOf(p))
      b == KeyTerm(keyToIdx, KeyUrlOf(p))
      c == KeyTerm(keyToIdx, KeyTitleOf(p))
  IN  IF a # HitUndefined THEN a ELSE IF b # HitUndefined THEN b ELSE c

\* considerKey for the three keys of p.
ConsiderKeys(keyToIdx, p, hit) ==
  LET keys == { KeyIdOf(p), KeyUrlOf(p), KeyTitleOf(p) } \ { << >> }
  IN  [ k \in DOMAIN keyToIdx \cup keys |-> IF k \in keys THEN hit ELSE keyToIdx[k] ]

\* existing?.source !== "arxiv" && p.source === "arxiv"
ArxivReplaces(existing, p) ==
  /\ p.source = "arxiv"
  /\ existing = << >> \/ existing[1].source # "arxiv"

\* One turn of the loop of route.ts 658-689; st = [out, prop, keyToIdx], where
\* prop is << >> or << out[""] >>.
DedupStep(st, p) ==
  LET hitIdx == HitIdxOf(st.keyToIdx, p)
      existing == IF hitIdx.kind = "index" THEN << st.out[hitIdx.i + 1] >> ELSE st.prop
  IN  IF hitIdx = HitUndefined
      THEN [ out |-> Append(st.out, p),
             prop |-> st.prop,
             keyToIdx |-> ConsiderKeys(st.keyToIdx, p, HitIndex(Len(st.out))) ]
      ELSE IF ArxivReplaces(existing, p)
           THEN [ out |-> IF hitIdx.kind = "index"
                          THEN [ st.out EXCEPT ![hitIdx.i + 1] = p ]
                          ELSE st.out,
                  prop |-> IF hitIdx.kind = "index" THEN st.prop ELSE << p >>,
                  keyToIdx |-> ConsiderKeys(st.keyToIdx, p, hitIdx) ]
           ELSE st

DedupInit == [ out |-> << >>, prop |-> << >>, keyToIdx |-> << >> ]

\* The turns lo..hi of the loop of route.ts 658-689, in order: the turns of the
\* first half, then from the state they leave the turns of the second half.
\* The test on left.out is never true: it has the state after the first half
\* evaluated before the second half starts.
RECURSIVE DedupTurns(_, _, _, _)
DedupTurns(st, mixed, lo, hi) ==
  IF lo > hi THEN st
  ELSE IF lo = hi THEN DedupStep(st, mixed[lo])
  ELSE LET mid == (lo + hi) \div 2
           left == DedupTurns(st, mixed, lo, mid)
       IN  IF Len(left.out) < 0 THEN left
           ELSE DedupTurns(left, mixed, mid + 1, hi)

\* The loop of route.ts 658-689: one turn for every record of mixed, in order.
DedupLoop(st, mixed) == DedupTurns(st, mixed, 1, Len(mixed))

\* A final pass that removes nothing.
FinalDedupSkipped(mixed) == mixed

\* out after the final pass.
FinalDedup(mixed) == DedupLoop(DedupInit, mixed).out

(***************************************************************************)
(* Citation enrichment (route.ts 171-235, 693-706)                         *)
(***************************************************************************)

\* A key that prefers the native id of a native record to its DOI.
toS2IdNativeFirst(p) ==
  IF p.source = "arxiv" /\ stripArxivVersion(p.arxivId) # << >>
  THEN S_ARXIV \o stripArxivVersion(p.arxivId)
  ELSE IF Trim(p.doi) # << >> THEN S_DOI \o Trim(p.doi)
  ELSE IF p.absUrl # << >> THEN S_URL \o p.absUrl
  ELSE << >>

toS2Id(p) ==
  LET doi == Trim(p.doi)
      base == stripArxivVersion(p.arxivId)
      doiFromUrl == OrElse(extractDoiFromUrl(p.absUrl), extractDoiFromUrl(p.pdfUrl))
      u == OrElse(p.absUrl, p.pdfUrl)
  IN  IF doi # << >> THEN S_DOI \o doi
      ELSE IF p.source = "arxiv"
           THEN IF base # << >> THEN S_ARXIV \o base ELSE << >>
      ELSE IF doiFromUrl # << >> THEN S_DOI \o doiFromUrl
      ELSE IF u # << >> THEN S_URL \o u
      ELSE << >>

S2IdsOf(pool) == [ i \in 1..Len(pool) |-> toS2Id(pool[i]) ]

\* uniq of fetchS2Batch (route.ts 198)
S2Uniq(ids) == Uniq(SelectSeq(ids, LAMBDA x : x # << >>))

\* An item of the service's answer is null, or an object whose citationCount
\* and influentialCitationCount are numbers or missing:
\* [null |-> BOOLEAN, cit |-> << >> or <<n>>, inf |-> << >> or <<n>>].
S2Null == [ null |-> TRUE, cit |-> << >>, inf |-> << >> ]
S2Item(c, i) == [ null |-> FALSE, cit |-> c, inf |-> i ]

\* The map fetchS2Batch returns for an answer arr aligned with uniq
\* (route.ts 222-234); arr may be shorter than uniq.
S2MapOf(uniq, arr) ==
  LET hit == { i \in 1..Len(uniq) : i <= Len(arr) /\ ~arr[i].null }
  IN  [ k \in { uniq[i] : i \in hit } |->
          arr[CHOOSE i \in hit : uniq[i] = k] ]

\* { ...p, citationCount: meta.citationCount, influentialCitationCount: ... }
WithCitations(p, meta) ==
  LET base == [ f \in DOMAIN p \ { "citationCount", "influentialCitationCount" } |-> p[f] ]
      c == IF meta.cit # << >> THEN ("citationCount" :> meta.cit[1]) ELSE << >>
      i == IF meta.inf # << >> THEN ("influentialCitationCount" :> meta.inf[1]) ELSE << >>
  IN  IF meta.cit = << >> /\ meta.inf = << >> THEN base
      ELSE IF meta.cit = << >> THEN base @@ i
      ELSE IF meta.inf = << >> THEN base @@ c
      ELSE base @@ c @@ i

\* An enrichment that writes 0 where the service returned no entry
\* (meta?.citationCount ?? 0).
EnrichedWithZeroDefaults(pool, s2Ids, s2Map) ==
  [ i \in 1..Len(pool) |->
      IF s2Ids[i] # << >> /\ s2Ids[i] \in DOMAIN s2Map
      THEN WithCitations(pool[i], s2Map[s2Ids[i]])
      ELSE WithCitations(pool[i], S2Item(<< 0 >>, << 0 >>)) ]

\* The loop of route.ts 697-706.
Enriched(pool, s2Ids, s2Map) ==
  [ i \in 1..Len(pool) |->
      IF s2Ids[i] # << >> /\ s2Ids[i] \in DOMAIN s2Map
      THEN WithCitations(pool[i], s2Map[s2Ids[i]])
      ELSE pool[i] ]

(***************************************************************************)
(* rerankWithCitations (route.ts 237-300)                                  *)
(***************************************************************************)

\* String(a.doi || a.arxivId || a.absUrl || a.title || "").toLowerCase()
FallbackKey(p) == ToLower(OrElse(p.doi, OrElse(p.arxivId, OrElse(p.absUrl, p.title))))

\* A citations comparator that stops at the citation count.
CitationsBeforeCountOnly(a, b, sortOrder) ==
  IF sortOrder = "ascending"
  THEN CitOrZero(a) < CitOrZero(b)
  ELSE CitOrZero(b) < CitOrZero(a)

\* compare(a, b) < 0 for the comparator of the citations mode (route.ts 245-261).
CitationsBefore(a, b, sortOrder) ==
  LET ca == CitOrZero(a)    cb == CitOrZero(b)
      ia == InfOrZero(a)    ib == InfOrZero(b)
      da == dateMs(a.published)   db == dateMs(b.published)
  IN  IF ca # cb THEN (IF sortOrder = "ascending" THEN ca < cb ELSE cb < ca)
      ELSE IF ia # ib THEN (IF sortOrder = "ascending" THEN ia < ib ELSE ib < ia)
      ELSE IF da # db THEN (IF sortOrder = "ascending" THEN da < db ELSE db < da)
      ELSE StrLess(FallbackKey(a), FallbackKey(b))

\* A date comparator whose citation tie-breaks follow the requested direction.
DateBeforeTiesInDirection(a, b, sortOrder) ==
  LET ta == dateMs(a.published)   tb == dateMs(b.published)
      ca == CitOrZero(a)    cb == CitOrZero(b)
      ia == InfOrZero(a)    ib == InfOrZero(b)
  IN  IF ta # tb THEN (IF sortOrder = "ascending" THEN ta < tb ELSE tb < ta)
      ELSE IF ca # cb THEN (IF sortOrder = "ascending" THEN ca < cb ELSE cb < ca)
      ELSE IF ia # ib THEN (IF sortOrder = "ascending" THEN ia < ib ELSE ib < ia)
      ELSE StrLess(FallbackKey(a), FallbackKey(b))

\* compare(a, b) < 0 for the comparator of the date modes (route.ts 266-283).
DateBefore(a, b, sortOrder) ==
  LET ta == dateMs(a.published)   tb == dateMs(b.published)
      ca == CitOrZero(a)    cb == CitOrZero(b)
      ia == InfOrZero(a)    ib == InfOrZero(b)
  IN  IF ta # tb THEN (IF sortOrder = "ascending" THEN ta < tb ELSE tb < ta)
      ELSE IF ca # cb THEN cb < ca
      ELSE IF ia # ib THEN ib < ia
      ELSE StrLess(FallbackKey(a), FallbackKey(b))

\* Math.log(1 + Math.max(0, x || 0)) in units of 1/10000, for the citation
\* counts of the model (0..9 and below).
Log1pTable == << 0, 6931, 10986, 13863, 16094, 17918, 19459, 20794, 21972, 23026 >>
log1p(x) == Log1pTable[Max(0, x) + 1]

\* A score in which the citation term is subtracted from the base.
ScoreWithPenalty(n, idx, c, denom) == (n - idx) * denom * 100 - 15 * n * log1p(c)

\* A score whose base rises with the position.
ScoreWithRisingBase(n, idx, c, denom) == idx * denom * 100 + 15 * n * log1p(c)

\* The score of route.ts 293-295 times list.length * denom * 100 (a positive
\* factor common to the whole list): base = (n - idx) / n, cite = log1p(c) / denom.
ScoreScaled(n, idx, c, denom) == (n - idx) * denom * 100 + 15 * n * log1p(c)

\* The positions of list in the order of route.ts 291-298: element k is the
\* position in list of the record ranked k-th (at carries the position
\* through the sort).
RelevanceOrder(list) ==
  LET n == Len(list)
      cits == { 1 } \cup { CitOrZero(list[i]) : i \in 1..n }
      maxC == CHOOSE m \in cits : \A c \in cits : c <= m
      denom == log1p(maxC)
      scored == [ i \in 1..n |->
                    [ at |-> i,
                      score |-> ScoreScaled(n, i - 1, CitOrZero(list[i]), denom) ] ]
      before(a, b) == b.score < a.score
      sorted == StableSort(scored, before)
  IN  [ i \in 1..n |-> sorted[i].at ]

RelevanceRanked(list) ==
  LET order == RelevanceOrder(list)
  IN  [ i \in 1..Len(list) |-> list[order[i]] ]

rerankWithCitations(list, sortBy, sortOrder) ==
  IF list = << >> THEN list
  ELSE IF sortBy = "citations"
       THEN LET before(a, b) == CitationsBefore(a, b, sortOrder)
            IN  StableSort(list, before)
  ELSE IF sortBy # "relevance"
       THEN LET before(a, b) == DateBefore(a, b, sortOrder)
            IN  StableSort(list, before)
  ELSE RelevanceRanked(list)

(***************************************************************************)
(* Request parameters (route.ts 462-522)                                   *)
(***************************************************************************)

DefaultMax == 10
PoolCap == 300
PoolFloor == 50
PoolFactor == 5

\* Math.max(1, parseInt(max, 10) || 10) and Math.max(0, parseInt(start, 10) || 0)
\* for a parameter that parses to the integer n.
MaxN(n) == Max(1, IF n = 0 THEN DefaultMax ELSE n)
StartN(n) == Max(0, n)

GlobalMode(sortBy) == sortBy # "relevance"

CandidateMax(sortBy, startN, maxN) ==
  IF GlobalMode(sortBy)
  THEN Min(PoolCap, Max(PoolFloor, (startN + maxN) * PoolFactor))
  ELSE maxN

\* The window's start if the adapters were asked for the requested offset in
\* every sort mode.
AdapterStartAtOffset(sortBy, startN) == startN

\* The window both adapters are asked for (route.ts 521-522, 576-583).
AdapterStart(sortBy, startN) == IF GlobalMode(sortBy) THEN 0 ELSE startN
AdapterMax(sortBy, startN, maxN) == CandidateMax(sortBy, startN, maxN)

\* pool of route.ts 691
PoolOf(out, sortBy, startN, maxN) == Slice(out, 0, CandidateMax(sortBy, startN, maxN))

\* paged of route.ts 711
Paged(reranked, sortBy, startN, maxN) ==
  IF GlobalMode(sortBy) THEN Slice(reranked, startN, startN + maxN) ELSE reranked

(***************************************************************************)
(* The upstream services, as the request sees them.                        *)
(* env.feed     the native feed's full result list for the query           *)
(* env.catalog  the native entries the lookup-by-id call can return        *)
(* env.works    the works index's full row list for the query              *)
(* The author sub-index answers each sub-lookup with one of                *)
(* AuthorIndexAnswers.                                                     *)
(* env.s2       the citation service's table: key -> item (null if absent) *)
(* An outbound call ends "ok", "nonok" (a non-success status) or "throw"   *)
(* (the fetch promise rejects).                                            *)
(***************************************************************************)

PerPage == 25
PageCap == 20

\* What the feed sends for start/max_results (route.ts 524-536).
FeedWindow(feed, start, max) == Slice(feed, start, start + max)

\* What the feed sends for an id_list (route.ts 146-153): for each requested
\* id, in order, the catalog entries with that version-less id.
LookupAnswer(catalog, ids) ==
  LET matches(id) ==
        SelectSeq(catalog,
                  LAMBDA e : ToLower(stripArxivVersion(ArxivIdOf(e.id))) = ToLower(id))
      RECURSIVE gather(_)
      gather(k) == IF k > Len(ids) THEN << >> ELSE matches(ids[k]) \o gather(k + 1)
  IN  gather(1)

\* The rows of one works page (route.ts 391-396).
WorksPage(works, pageNum) == Slice(works, (pageNum - 1) * PerPage, pageNum * PerPage)

\* ids of fetchAuthorIds (route.ts 335-339): the last path segment of each id.
AuthorIdsOf(rows) ==
  LET trimmed == SelectSeq([ i \in 1..Len(rows) |-> Trim(rows[i]) ], LAMBDA x : x # << >>)
      lastSeg(id) == LET parts == SplitOn(id, "/") IN OrElse(parts[Len(parts)], id)
  IN  SelectSeq([ i \in 1..Len(trimmed) |-> lastSeg(trimmed[i]) ], LAMBDA x : x # << >>)

\* The citation service's answer for the ids of one batch: aligned with ids.
S2Answer(table, ids) ==
  [ i \in 1..Len(ids) |-> IF ids[i] \in DOMAIN table THEN table[ids[i]] ELSE S2Null ]

(***************************************************************************)
(* The data of the model: native feed entries, works-index rows, citation  *)
(* tables and requests.                                                    *)
(***************************************************************************)

\* A native paper, version 1, no DOI.
E1 ==
  [ id |-> << "h", "t", "t", "p", ":", "/", "/", "a", "r", "x", "i", "v", ".", "o", "r", "g", "/", "a", "b", "s", "/", "1", "v", "1" >>,
    title |-> << "A", " ", "b" >>,
    summary |-> << >>,
    published |-> << "2", "0", "2", "1" >>,
    updated |-> << "2", "0", "2", "1" >>,
    names |-> << << "A", " ", "B" >> >>,
    doi |-> << >> ]

\* A native paper with a DOI, updated after it was published.
E2 ==
  [ id |-> << "h", "t", "t", "p", ":", "/", "/", "a", "r", "x", "i", "v", ".", "o", "r", "g", "/", "a", "b", "s", "/", "2" >>,
    title |-> << "C" >>,
    summary |-> << >>,
    published |-> << "2", "0", "2", "0" >>,
    updated |-> << "2", "0", "2", "1" >>,
    names |-> << << "C", " ", "D" >> >>,
    doi |-> << "1", "0", ".", "1", "/", "x" >> ]

\* A native paper whose identifier is nothing but a version marker.
E3 ==
  [ id |-> << "h", "t", "t", "p", ":", "/", "/", "a", "r", "x", "i", "v", ".", "o", "r", "g", "/", "a", "b", "s", "/", "v", "1" >>,
    title |-> << "E" >>,
    summary |-> << >>,
    published |-> << "2", "0", "2", "1" >>,
    updated |-> << >>,
    names |-> << << "B" >> >>,
    doi |-> << >> ]

\* A works row whose landing page is the abstract page of native paper 1.
W1 ==
  [ id |-> << "h", "t", "t", "p", "s", ":", "/", "/", "o", "p", "e", "n", "a", "l", "e", "x", ".", "o", "r", "g", "/", "W", "1" >>,
    display_name |-> << "A", " ", "b" >>,
    names |-> << << "A", " ", "B" >> >>,
    publication_date |-> << "2", "0", "2", "1" >>,
    inv |-> << >>,
    landing |-> << "h", "t", "t", "p", "s", ":", "/", "/", "a", "r", "x", "i", "v", ".", "o", "r", "g", "/", "a", "b", "s", "/", "1" >>,
    doi |-> << >> ]

\* A works row known by its DOI only.
W2 ==
  [ id |-> << "W", "2" >>,
    display_name |-> << "D" >>,
    names |-> << << "A", " ", "B" >> >>,
    publication_date |-> << "2", "0", "2", "0" >>,
    inv |-> << >>,
    landing |-> << >>,
    doi |-> << "h", "t", "t", "p", "s", ":", "/", "/", "d", "o", "i", ".", "o", "r", "g", "/", "1", "0", ".", "1", "/", "y" >> ]

\* A works row whose landing page is the PDF of version 2 of native paper 1.
W3 ==
  [ id |-> << "W", "3" >>,
    display_name |-> << "A", " ", "b" >>,
    names |-> << << "B" >> >>,
    publication_date |-> << "2", "0", "2", "1" >>,
    inv |-> << >>,
    landing |-> << "h", "t", "t", "p", "s", ":", "/", "/", "a", "r", "x", "i", "v", ".", "o", "r", "g", "/", "p", "d", "f", "/", "1", "v", "2", ".", "p", "d", "f" >>,
    doi |-> << >> ]

\* A works row that points at a native paper the feed does not know.
W4 ==
  [ id |-> << "W", "4" >>,
    display_name |-> << "F" >>,
    names |-> << << "C", " ", "D" >> >>,
    publication_date |-> << "2", "0", "2", "0" >>,
    inv |-> << >>,
    landing |-> << "h", "t", "t", "p", "s", ":", "/", "/", "a", "r", "x", "i", "v", ".", "o", "r", "g", "/", "a", "b", "s", "/", "9" >>,
    doi |-> << >> ]

\* A works row with the title of native paper 1 and a landing page elsewhere.
W5 ==
  [ id |-> << "W", "5" >>,
    display_name |-> << "a", " ", " ", "B", "!" >>,
    names |-> << << "A", " ", "B" >> >>,
    publication_date |-> << >>,
    inv |-> << << << "d" >>, << 0, 2 >> >>, << << "l" >>, << 1 >> >> >>,
    landing |-> << "H", "T", "T", "P", ":", "/", "/", "x", ".", "o", "r", "g", "/", "5", "/" >>,
    doi |-> << >> ]

\* A works row with no identifier, landing page or DOI.
W6 ==
  [ id |-> << >>,
    display_name |-> << >>,
    names |-> <<  >>,
    publication_date |-> << >>,
    inv |-> << >>,
    landing |-> << >>,
    doi |-> << >> ]

\* A native entry whose id is the landing page of works row 5 and whose title
\* is the title of works row 2.
E4 ==
  [ id |-> << "h", "t", "t", "p", "s", ":", "/", "/", "x", ".", "o", "r", "g", "/", "5" >>,
    title |-> << "D" >>,
    summary |-> << >>,
    published |-> << "2", "0", "2", "0" >>,
    updated |-> << >>,
    names |-> << << "A", " ", "B" >> >>,
    doi |-> << >> ]

NativeEntries == << E1, E2, E3 >>
WorksRows == << W1, W2, W3, W4, W5, W6 >>

\* Longest native result list and works row list of a small scenario.
MaxFeed == 2
MaxWorks == 2

\* The subsequences of s with at most n elements, in the order of s.
SubSeqsUpTo(s, n) ==
  LET pick(I) == [ k \in 1..Cardinality(I) |->
                     s[CHOOSE i \in I : Cardinality({ j \in I : j < i }) = k - 1] ]
  IN  { pick(I) : I \in { J \in SUBSET (1..Len(s)) : Cardinality(J) <= n } }

Reversed(s) == [ i \in 1..Len(s) |-> s[Len(s) + 1 - i] ]

\* Result lists: the subsequences and their reversals.
ListsUpTo(s, n) == SubSeqsUpTo(s, n) \cup { Reversed(t) : t \in SubSeqsUpTo(s, n) }

K_arxiv1 == S_ARXIV \o << "1" >>
K_doiX == S_DOI \o << "1", "0", ".", "1", "/", "x" >>
K_doiY == S_DOI \o << "1", "0", ".", "1", "/", "y" >>

\* Citation tables: the service knows nothing; or it knows native paper 1 and
\* the second DOI as never cited (the latter without an influential count) and
\* the first DOI as cited, and answers null for every other key.
S2TableEmpty == << >>
S2TableMixed ==
  [ k \in { K_arxiv1, K_doiX, K_doiY } |->
      IF k = K_arxiv1 THEN S2Item(<< 0 >>, << 0 >>)
      ELSE IF k = K_doiX THEN S2Item(<< 2 >>, << 1 >>)
      ELSE S2Item(<< 0 >>, << >>) ]

AuthorIndexAnswers == { << >>, << << "h", "t", "t", "p", "s", ":", "/", "/", "o", "p", "e", "n", "a", "l", "e", "x", ".", "o", "r", "g", "/", "A", "1" >> >> }

AllFaults ==
  { << s, o >> : s \in { "arxiv", "authors", "works", "lookup", "s2" },
                 o \in { "nonok", "throw" } }

NoFaults == {}

Queries == { << " " >>, << "b" >> }
Fields == { "smart", "author" }
SortKeys == { "relevance", "submittedDate", "lastUpdatedDate", "citations" }
SortOrders == { "ascending", "descending" }
\* <<start, max>> as the parameters parse: max 0 stands for a missing or
\* unparsable max.
Windows == { << 0, 0 >>, << 1, 1 >> }

Requests ==
  { [ q |-> q, max |-> w[2], start |-> w[1], field |-> f, sortBy |-> s, sortOrder |-> o ] :
      q \in Queries, w \in Windows, f \in Fields, s \in SortKeys, o \in SortOrders }

\* The window of a request without start and max parameters.
DefaultWindow(r) == r.start = 0 /\ r.max = 0

\* Scenarios with every upstream answering: all result lists, in both orders.
RichEnvs ==
  { [ feed |-> f, catalog |-> NativeEntries, works |-> w, s2 |-> S2TableMixed,
      faults |-> NoFaults ] :
      f \in SubSeqsUpTo(NativeEntries, MaxFeed),
      w \in ListsUpTo(WorksRows, MaxWorks) }

Y2020 == << "2", "0", "2", "0" >>
Y2021 == << "2", "0", "2", "1" >>

\* The decimal digits of a natural number.
RECURSIVE Digits(_)
Digits(n) ==
  IF n < 10 THEN << AsciiOrder[Code["0"] + n] >>
  ELSE Digits(n \div 10) \o << AsciiOrder[Code["0"] + (n % 10)] >>

\* The i-th row of the long works index.
LongWork(i) ==
  [ id |-> << "W" >> \o Digits(i),
    display_name |-> << "T" >> \o Digits(i),
    names |-> << >>,
    publication_date |-> Y2020,
    inv |-> << >>,
    landing |-> << "h", "t", "t", "p", "s", ":", "/", "/", "x", ".", "o", "r", "g", "/" >> \o Digits(i),
    doi |-> << >> ]

\* A works row by author B that points at native paper 2, which is by C D.
W7 ==
  [ id |-> << "W", "7" >>,
    display_name |-> << "G" >>,
    names |-> << << "B" >> >>,
    publication_date |-> << "2", "0", "2", "0" >>,
    inv |-> << >>,
    landing |-> << "h", "t", "t", "p", "s", ":", "/", "/", "a", "r", "x", "i", "v", ".", "o", "r", "g", "/", "a", "b", "s", "/", "2" >>,
    doi |-> << >> ]

\* A scenario with a works index of one row more than a page, whose first rows
\* point at native papers 1 and 2 and whose pages may be answered with a non-success
\* status: the non-relevance modes, which ask for PoolFloor rows, read two
\* pages.
PagedEnvs ==
  { [ feed |-> << E2 >>, catalog |-> NativeEntries,
      works |-> [ i \in 1..(PerPage + 1) |->
                    IF i = 1 THEN W1 ELSE IF i = 2 THEN W7 ELSE LongWork(i) ],
      s2 |-> S2TableMixed,
      faults |-> { << "works", "nonok" >> } ] }

\* Scenarios in which every outbound call may fail, either way.
FaultyEnvs ==
  { [ feed |-> f, catalog |-> NativeEntries, works |-> w, s2 |-> t, faults |-> AllFaults ] :
      f \in { << >>, << E1 >> },
      w \in { << >>, << W1 >>, << W2 >> },
      t \in { S2TableEmpty, S2TableMixed } }

\* The rich scenarios are asked with the default window; a blank query and the
\* other windows go with the faulty ones.
Scenarios ==
  { << r, e >> \in Requests \X (RichEnvs \cup FaultyEnvs \cup PagedEnvs) :
      e \in RichEnvs \cup PagedEnvs => Trim(r.q) # << >> /\ DefaultWindow(r) }

(***************************************************************************)
(* State                                                                   *)
(***************************************************************************)

VARIABLES
  req,            \* the request: q, max, start, field, sortBy, sortOrder
  env,            \* the upstream services (see above)
  pc,             \* where the request handler is
  calls,          \* the outbound calls issued so far, in order
  papers,         \* route.ts 540
  papersFiltered, \* route.ts 559
  arxivSortTs,    \* route.ts 538
  seen,           \* route.ts 562
  collected,      \* route.ts 387
  pageNum,        \* route.ts 388
  openalexRaw,    \* route.ts 576
  oaArxivPapers,  \* route.ts 593
  openalex,       \* route.ts 629 (openalexFiltered)
  mixed,          \* route.ts 631
  out,            \* route.ts 648
  pool,           \* route.ts 691
  s2Ids,          \* route.ts 694
  s2Map,          \* route.ts 695
  response,       \* route.ts 711 (paged)
  replies,        \* how the outbound calls answered so far, in order
  history,        \* the requests served before this one, with their responses
  row,            \* the saved paper's row of the store: << >> or << its aiSummary >>
  saving,         \* the save request (src/app/api/saved/route.ts POST)
  summarizing,    \* the summarize requests (src/unnamed/part_000 POST)
  generations,    \* the summarize requests that invoked the generator, in order
  writes,         \* the summaries written to the row, in order
  norm            \* an identity normaliser under repeated application (route.ts 32-48, 130-133)

vars == << req, env, pc, calls, papers, papersFiltered, arxivSortTs, seen, collected,
           pageNum, openalexRaw, oaArxivPapers, openalex, mixed, out, pool, s2Ids,
           s2Map, response, replies, history,
           row, saving, summarizing, generations, writes, norm >>

\* The store and the requests of the summary workflow, which no step of a
\* search request touches.
summaryVars == << row, saving, summarizing, generations, writes >>

\* Manual Generate requests of one session of the saved-papers page.
MaxManual == 2

\* The summarize requests: 0 is the one the search page fires after a save,
\* the others are manual.
Summarizers == 0..MaxManual

\* No normaliser is being applied.
NormIdle == [ fn |-> "none", values |-> << >> ]

\* Nothing is saved and no request of the summary workflow is under way.
SummaryIdle ==
  /\ row = << >>
  /\ saving = [ pc |-> "idle", shouldSummarize |-> FALSE ]
  /\ summarizing = [ r \in Summarizers |-> [ pc |-> "idle", summary |-> << >> ] ]
  /\ generations = << >>
  /\ writes = << >>

qq == Trim(req.q)
maxN == MaxN(req.max)
startN == StartN(req.start)

\* fetchOpenAlex is called with the adapter window (route.ts 576-583, 310-314).
OaMaxN == Max(1, AdapterMax(req.sortBy, startN, maxN))
OaStartN == Max(0, AdapterStart(req.sortBy, startN))
\* The first page if the page of the offset were skipped.
FirstPageSkipped == (OaStartN \div PerPage) + 2
FirstPage == (OaStartN \div PerPage) + 1
OffsetInFirst == OaStartN % PerPage

\* safeField of route.ts 324-327
SafeField ==
  IF req.field \in { "smart", "title", "author", "abstract", "all" } THEN req.field ELSE "smart"

\* !q: the test without the trim.
IsEmptyString(q) == q = << >>

\* !q.trim() of route.ts 478
IsBlank(q) == Trim(q) = << >>

\* A call that also throws on a non-success status (if (!r.ok) throw ...).
RejectsOnNonSuccess(service, outcome) == outcome # "ok"

\* Whether awaiting the call to a service throws: the fetch promise rejects,
\* and no status is turned into an exception (route.ts 211-219, 333-334,
\* 392-396, 531-534).
Rejects(service, outcome) == outcome = "throw"

Call(to, arg) == [ to |-> to, arg |-> arg ]
Reply(to, outcome) == [ to |-> to, outcome |-> outcome ]

\* The ways the pending call to a service can end in this scenario.
Outcomes(service) == { "ok" } \cup { f[2] : f \in { g \in env.faults : g[1] = service } }

\* The feed's body when it answers with a non-success status: no entry.
NonOkFeedBody == << >>

(***************************************************************************)
(* The handler, from one await to the next (route.ts 462-714)              *)
(***************************************************************************)

\* GET up to the native-feed call (route.ts 462-534): a blank query is answered
\* at once.
Begin ==
  /\ pc = "start"
  /\ IF IsBlank(req.q)
     THEN /\ pc' = "done"
          /\ response' = << >>
          /\ calls' = calls
     ELSE /\ pc' = "awaitArxiv"
          /\ calls' = Append(calls, Call("arxiv",
                        << AdapterStart(req.sortBy, startN),
                           AdapterMax(req.sortBy, startN, maxN) >>))
          /\ response' = response
  /\ UNCHANGED << req, env, papers, papersFiltered, arxivSortTs, seen, collected,
                  pageNum, openalexRaw, oaArxivPapers, openalex, mixed, out, pool,
                  s2Ids, s2Map, replies,
                  history, summaryVars, norm >>

\* The native-feed call returns (route.ts 531-574; the status is not read).
ArxivReply ==
  /\ pc = "awaitArxiv"
  /\ \E o \in Outcomes("arxiv") :
       /\ replies' = Append(replies, Reply("arxiv", o))
       /\ IF Rejects("arxiv", o)
          THEN /\ pc' = "error"
               /\ UNCHANGED << papers, papersFiltered, arxivSortTs, seen >>
          ELSE LET entries == IF o = "ok"
                              THEN FeedWindow(env.feed, AdapterStart(req.sortBy, startN),
                                              AdapterMax(req.sortBy, startN, maxN))
                              ELSE NonOkFeedBody
                   ps == [ i \in 1..Len(entries) |-> ParseEntry(entries[i]) ]
                   pf == AuthorFiltered(ps, req.field, qq)
               IN  /\ pc' = "openalex"
                   /\ papers' = ps
                   /\ papersFiltered' = pf
                   /\ arxivSortTs' = ArxivSortTsOf(entries, req.sortBy)
                   /\ seen' = SeenOf(pf)
  /\ UNCHANGED << req, env, calls, collected, pageNum, openalexRaw, oaArxivPapers,
                  openalex, mixed, out, pool, s2Ids, s2Map, response, history, summaryVars, norm >>

\* fetchOpenAlex up to its first call (route.ts 310-392): the author sub-lookup
\* for an author query, else the first works page.
OpenAlexStart ==
  /\ pc = "openalex"
  /\ IF SafeField = "author"
     THEN /\ pc' = "awaitAuthors"
          /\ calls' = Append(calls, Call("authors", qq))
          /\ UNCHANGED << collected, pageNum >>
     ELSE /\ pc' = "awaitPage"
          /\ collected' = << >>
          /\ pageNum' = FirstPage
          /\ calls' = Append(calls, Call("works", FirstPage))
  /\ UNCHANGED << req, env, papers, papersFiltered, arxivSortTs, seen, openalexRaw,
                  oaArxivPapers, openalex, mixed, out, pool, s2Ids, s2Map, response,
                  replies,
                  history, summaryVars, norm >>

\* fetchAuthorIds returns (route.ts 329-340, 377-392).
AuthorsReply ==
  /\ pc = "awaitAuthors"
  /\ \E o \in Outcomes("authors"), rows \in AuthorIndexAnswers :
       /\ replies' = Append(replies, Reply("authors", o))
       /\ LET ids == IF o = "ok" THEN AuthorIdsOf(rows) ELSE << >>
          IN  IF Rejects("authors", o)
              THEN /\ pc' = "error"
                   /\ UNCHANGED << calls, collected, pageNum, openalexRaw >>
              ELSE IF ids = << >>
              THEN /\ pc' = "link"
                   /\ openalexRaw' = << >>
                   /\ UNCHANGED << calls, collected, pageNum >>
              ELSE /\ pc' = "awaitPage"
                   /\ collected' = << >>
                   /\ pageNum' = FirstPage
                   /\ calls' = Append(calls, Call("works", FirstPage))
                   /\ UNCHANGED openalexRaw
  /\ UNCHANGED << req, env, papers, papersFiltered, arxivSortTs, seen, oaArxivPapers,
                  openalex, mixed, out, pool, s2Ids, s2Map, response, history, summaryVars, norm >>

\* A paging loop that asks again for a page answered with a non-success
\* status.
PageTurnRetrying(coll, pn, o, rows) ==
  IF o = "nonok"
  THEN [ collected |-> coll, pageNum |-> pn, more |-> TRUE ]
  ELSE IF rows = << >>
  THEN [ collected |-> coll, pageNum |-> pn, more |-> FALSE ]
  ELSE IF Len(rows) < PerPage
  THEN [ collected |-> coll \o rows, pageNum |-> pn, more |-> FALSE ]
  ELSE [ collected |-> coll \o rows,
         pageNum |-> pn + 1,
         more |-> /\ ~((pn + 1) - FirstPage > PageCap)
                  /\ Len(coll \o rows) < OffsetInFirst + OaMaxN ]

\* One turn of the paging loop once its page request has returned
\* (route.ts 390-407): [collected, pageNum, more], more = the loop goes on.
PageTurn(coll, pn, o, rows) ==
  IF o = "nonok" \/ rows = << >>
  THEN [ collected |-> coll, pageNum |-> pn, more |-> FALSE ]
  ELSE IF Len(rows) < PerPage
  THEN [ collected |-> coll \o rows, pageNum |-> pn, more |-> FALSE ]
  ELSE [ collected |-> coll \o rows,
         pageNum |-> pn + 1,
         more |-> /\ ~((pn + 1) - FirstPage > PageCap)
                  /\ Len(coll \o rows) < OffsetInFirst + OaMaxN ]

\* A works page returns (route.ts 392-446).
PageReply ==
  /\ pc = "awaitPage"
  /\ \E o \in Outcomes("works") :
       /\ replies' = Append(replies, Reply("works", o))
       /\ IF Rejects("works", o)
          THEN /\ pc' = "error"
               /\ UNCHANGED << calls, collected, pageNum, openalexRaw >>
          ELSE LET t == PageTurn(collected, pageNum, o, WorksPage(env.works, pageNum))
               IN  /\ collected' = t.collected
                   /\ pageNum' = t.pageNum
                   /\ IF t.more
                      THEN /\ pc' = "awaitPage"
                           /\ calls' = Append(calls, Call("works", t.pageNum))
                           /\ UNCHANGED openalexRaw
                      ELSE /\ pc' = "link"
                           /\ openalexRaw' =
                                MapWorks(Slice(t.collected, OffsetInFirst, OffsetInFirst + OaMaxN))
                           /\ UNCHANGED calls
  /\ UNCHANGED << req, env, papers, papersFiltered, arxivSortTs, seen, oaArxivPapers,
                  openalex, mixed, out, pool, s2Ids, s2Map, response, history, summaryVars, norm >>

\* The native ids the works records point at, and the batched lookup
\* (route.ts 585-593, 142-151): no call for an empty id list.
LinkStart ==
  /\ pc = "link"
  /\ LET ids == LookupIds(OaArxivIds(openalexRaw))
     IN  IF ids = << >>
         THEN /\ pc' = "merge"
              /\ oaArxivPapers' = << >>
              /\ UNCHANGED calls
         ELSE /\ pc' = "awaitLookup"
              /\ calls' = Append(calls, Call("lookup", ids))
              /\ UNCHANGED oaArxivPapers
  /\ UNCHANGED << req, env, papers, papersFiltered, arxivSortTs, seen, collected,
                  pageNum, openalexRaw, openalex, mixed, out, pool, s2Ids, s2Map,
                  response, replies,
                  history, summaryVars, norm >>

\* fetchArxivByIds returns (route.ts 148-168; the status is not read).
LookupReply ==
  /\ pc = "awaitLookup"
  /\ \E o \in Outcomes("lookup") :
       /\ replies' = Append(replies, Reply("lookup", o))
       /\ IF Rejects("lookup", o)
          THEN /\ pc' = "error"
               /\ UNCHANGED oaArxivPapers
          ELSE LET entries == IF o = "ok"
                              THEN LookupAnswer(env.catalog, calls[Len(calls)].arg)
                              ELSE NonOkFeedBody
               IN  /\ pc' = "merge"
                   /\ oaArxivPapers' = [ i \in 1..Len(entries) |-> ParseEntry(entries[i]) ]
  /\ UNCHANGED << req, env, calls, papers, papersFiltered, arxivSortTs, seen, collected,
                  pageNum, openalexRaw, openalex, mixed, out, pool, s2Ids, s2Map,
                  response, history, summaryVars, norm >>

\* Linking, author filter and merge (route.ts 594-644).
Merge ==
  /\ pc = "merge"
  /\ LET linked == LinkAndFilter(openalexRaw, oaArxivPapers, seen)
         filtered == AuthorFiltered(linked, req.field, qq)
     IN  /\ openalex' = filtered
         /\ mixed' = Mixed(papersFiltered, filtered, req.sortBy, req.sortOrder, arxivSortTs)
  /\ pc' = "dedup"
  /\ UNCHANGED << req, env, calls, papers, papersFiltered, arxivSortTs, seen, collected,
                  pageNum, openalexRaw, oaArxivPapers, out, pool, s2Ids, s2Map,
                  response, replies,
                  history, summaryVars, norm >>

\* The final deduplication pass, the pool and its citation keys, and the batch
\* call (route.ts 646-695, 197-216): no call when no record has a key.
Dedup ==
  /\ pc = "dedup"
  /\ LET deduped == FinalDedup(mixed)
         pl == PoolOf(deduped, req.sortBy, startN, maxN)
         ids == S2IdsOf(pl)
     IN  /\ out' = deduped
         /\ pool' = pl
         /\ s2Ids' = ids
         /\ IF S2Uniq(ids) = << >>
            THEN /\ pc' = "rank"
                 /\ s2Map' = << >>
                 /\ UNCHANGED calls
            ELSE /\ pc' = "awaitS2"
                 /\ calls' = Append(calls, Call("s2", S2Uniq(ids)))
                 /\ UNCHANGED s2Map
  /\ UNCHANGED << req, env, papers, papersFiltered, arxivSortTs, seen, collected,
                  pageNum, openalexRaw, oaArxivPapers, openalex, mixed, response,
                  replies,
                  history, summaryVars, norm >>

\* fetchS2Batch returns (route.ts 211-234).
S2Reply ==
  /\ pc = "awaitS2"
  /\ \E o \in Outcomes("s2") :
       /\ replies' = Append(replies, Reply("s2", o))
       /\ IF Rejects("s2", o)
          THEN /\ pc' = "error"
               /\ UNCHANGED s2Map
          ELSE /\ pc' = "rank"
               /\ s2Map' = IF o = "ok"
                           THEN LET uniq == calls[Len(calls)].arg
                                IN  S2MapOf(uniq, S2Answer(env.s2, uniq))
                           ELSE << >>
  /\ UNCHANGED << req, env, calls, papers, papersFiltered, arxivSortTs, seen, collected,
                  pageNum, openalexRaw, oaArxivPapers, openalex, mixed, out, pool,
                  s2Ids, response, history, summaryVars, norm >>

\* Ranking that does not wait for the answer of the citation service.
RankWithoutAnswer ==
  /\ pc \in { "awaitS2", "rank" }
  /\ LET enriched == Enriched(pool, s2Ids, s2Map)
     IN  /\ pool' = enriched
         /\ response' = Paged(rerankWithCitations(enriched, req.sortBy, req.sortOrder),
                              req.sortBy, startN, maxN)
  /\ pc' = "done"
  /\ UNCHANGED << req, env, calls, papers, papersFiltered, arxivSortTs, seen, collected,
                  pageNum, openalexRaw, oaArxivPapers, openalex, mixed, out, s2Ids,
                  s2Map, replies,
                  history, summaryVars, norm >>

\* Enrichment, ranking and the page (route.ts 697-713).
Rank ==
  /\ pc = "rank"
  /\ LET enriched == Enriched(pool, s2Ids, s2Map)
     IN  /\ pool' = enriched
         /\ response' = Paged(rerankWithCitations(enriched, req.sortBy, req.sortOrder),
                              req.sortBy, startN, maxN)
  /\ pc' = "done"
  /\ UNCHANGED << req, env, calls, papers, papersFiltered, arxivSortTs, seen, collected,
                  pageNum, openalexRaw, oaArxivPapers, openalex, mixed, out, s2Ids,
                  s2Map, replies,
                  history, summaryVars, norm >>

Init ==
  /\ \E sc \in Scenarios : req = sc[1] /\ env = sc[2]
  /\ pc = "start"
  /\ calls = << >>
  /\ papers = << >>
  /\ papersFiltered = << >>
  /\ arxivSortTs = << >>
  /\ seen = {}
  /\ collected = << >>
  /\ pageNum = 0
  /\ openalexRaw = << >>
  /\ oaArxivPapers = << >>
  /\ openalex = << >>
  /\ mixed = << >>
  /\ out = << >>
  /\ pool = << >>
  /\ s2Ids = << >>
  /\ s2Map = << >>
  /\ response = << >>
  /\ replies = << >>
  /\ history = << >>
  /\ SummaryIdle
  /\ norm = NormIdle

Next ==
  \/ Begin
  \/ ArxivReply
  \/ OpenAlexStart
  \/ AuthorsReply
  \/ PageReply
  \/ LinkStart
  \/ LookupReply
  \/ Merge
  \/ Dedup
  \/ S2Reply
  \/ Rank

Spec == Init /\ [][Next]_vars
(***************************************************************************)
(* Properties of one request                                               *)
(***************************************************************************)

\* The call to a service has been answered with this outcome.
Answered(service, outcome) ==
  \E i \in 1..Len(replies) : replies[i] = Reply(service, outcome)

\* The handler has returned its result list (route.ts 713).
Served == pc = "done"

\* The handler has thrown: the request ends with a request-level error.
Failed == pc = "error"

\* No two records of a list have the same id.
NoDuplicateIds(list) ==
  \A i, j \in 1..Len(list) : i < j => list[i].arxivId # list[j].arxivId

\* C1: if the native-feed search call fails, by a transport failure or by a
\* non-success status, the request fails and no result list is returned.
\* The handler never reads the feed's status, so this is violated.
C1_NativeFeedFailureIsFatal ==
  (Answered("arxiv", "throw") \/ Answered("arxiv", "nonok")) => ~Served

\* C1, the failing case: the feed answered with a non-success status and the
\* request returned a result list.
C1_NonSuccessFeedServed == Answered("arxiv", "nonok") /\ Served

\* C5: after the final deduplication pass, and in every response, no two
\* records have the same id.
C5_NoDuplicateIds ==
  /\ pc \in { "awaitS2", "rank", "done" } => NoDuplicateIds(out) /\ NoDuplicateIds(pool)
  /\ Served => NoDuplicateIds(response)

\* C5, its case: two works records were linked to the native paper that the
\* native search returned too, so that the merged list held the id three times,
\* and the request was served.
C5_LinkedTwiceAndFound ==
  /\ Served
  /\ response # << >>
  /\ \E i, j, k \in 1..Len(mixed) :
       /\ i < j /\ j < k
       /\ mixed[i].arxivId = mixed[j].arxivId
       /\ mixed[j].arxivId = mixed[k].arxivId
  /\ \E i \in 1..Len(papersFiltered), j \in 1..Len(openalex) :
       papersFiltered[i].arxivId = openalex[j].arxivId

\* The works index delivered nothing: the author sub-lookup or the first works
\* page answered with a non-success status.
WorksDeliveredNothing ==
  \/ Answered("authors", "nonok")
  \/ \E i \in 1..Len(replies) :
       /\ replies[i] = Reply("works", "nonok")
       /\ \A j \in 1..(i - 1) : replies[j].to # "works"

\* C6: a non-success response of the works index, of the author sub-lookup or
\* of the citation service never aborts the request: the request fails only
\* at a call that throws, and a served request whose secondary sources answered
\* with a non-success status has returned what the native feed delivered,
\* without citation counts.
C6_NonSuccessNeverAborts ==
  /\ Failed => replies # << >> /\ replies[Len(replies)].outcome = "throw"
  /\ (Served /\ WorksDeliveredNothing) =>
       { mixed[i] : i \in 1..Len(mixed) } = { papersFiltered[i] : i \in 1..Len(papersFiltered) }
  /\ (Served /\ Answered("s2", "nonok")) =>
       \A i \in 1..Len(response) : ~HasCit(response[i]) /\ ~HasInf(response[i])

\* C6, its case: the author sub-lookup (or else the works index) and the
\* citation service both answered with a non-success status and the request
\* returned the records of the native feed.
C6_DegradedButServed ==
  /\ Served
  /\ WorksDeliveredNothing
  /\ Answered("s2", "nonok")
  /\ response # << >>

\* C7: a blank query is answered with the empty list and without any outbound
\* call.
C7_BlankQueryShortCircuits ==
  (Trim(req.q) = << >> /\ pc # "start") => Served /\ response = << >> /\ calls = << >>

\* C7, its case: a query of white space only has been answered.
C7_BlankQueryAnswered == req.q # << >> /\ Trim(req.q) = << >> /\ Served

\* What the citation service returned for a record of the response: << >> when
\* no key is derivable, the batch call was not answered with success, or the
\* entry is null; else << item >>.
ServiceEntryOf(p) ==
  IF /\ toS2Id(p) # << >>
     /\ Answered("s2", "ok")
     /\ toS2Id(p) \in DOMAIN env.s2
     /\ ~env.s2[toS2Id(p)].null
  THEN << env.s2[toS2Id(p)] >>
  ELSE << >>

\* C10: in every response a record for which the citation service returned no
\* entry has neither citation field, and a record for which it returned a
\* count has that count, 0 included.
C10_CitationAbsenceDistinguishable ==
  Served =>
    \A i \in 1..Len(response) :
      IF ServiceEntryOf(response[i]) = << >>
      THEN ~HasCit(response[i]) /\ ~HasInf(response[i])
      ELSE /\ HasCit(response[i]) <=> ServiceEntryOf(response[i])[1].cit # << >>
           /\ HasCit(response[i]) =>
                response[i].citationCount = ServiceEntryOf(response[i])[1].cit[1]
           /\ HasInf(response[i]) <=> ServiceEntryOf(response[i])[1].inf # << >>

\* C10, its case: one response holds a record the service reported as never
\* cited and a record the service had no entry for.
C10_ZeroAndAbsentTogether ==
  /\ Served
  /\ \E i, j \in 1..Len(response) :
       /\ ServiceEntryOf(response[i]) # << >>
       /\ HasCit(response[i]) /\ response[i].citationCount = 0
       /\ toS2Id(response[j]) # << >>
       /\ ServiceEntryOf(response[j]) = << >>
       /\ ~HasCit(response[j])

(***************************************************************************)
(* The final deduplication pass on its own: the handler from the merged    *)
(* list on, for every list of at most MaxMixed of the records below.       *)
(***************************************************************************)

MaxMixed == 3

\* A native paper whose feed entry has no title.
E5 ==
  [ id |-> << "h", "t", "t", "p", "s", ":", "/", "/", "a", "r", "x", "i", "v", ".", "o", "r", "g", "/", "a", "b", "s", "/", "5" >>,
    title |-> << >>,
    summary |-> << >>,
    published |-> << "2", "0", "2", "0" >>,
    updated |-> << >>,
    names |-> << << "A", " ", "B" >> >>,
    doi |-> << >> ]

\* A native paper whose title has no ASCII letter or digit.
E6 ==
  [ id |-> << "h", "t", "t", "p", "s", ":", "/", "/", "a", "r", "x", "i", "v", ".", "o", "r", "g", "/", "a", "b", "s", "/", "6" >>,
    title |-> << "!" >>,
    summary |-> << >>,
    published |-> << "2", "0", "2", "0" >>,
    updated |-> << >>,
    names |-> << << "A", " ", "B" >> >>,
    doi |-> << >> ]

\* A works row whose title has no ASCII letter or digit.
W8 ==
  [ id |-> << "W", "8" >>,
    display_name |-> << "?" >>,
    names |-> << << "A", " ", "B" >> >>,
    publication_date |-> << >>,
    inv |-> << >>,
    landing |-> << "h", "t", "t", "p", "s", ":", "/", "/", "y", ".", "o", "r", "g", "/", "8" >>,
    doi |-> << >> ]

\* Native records and works records, as the adapters build them.
DedupRecords ==
  << ParseEntry(E1), ParseEntry(E4), MapWork(W1), MapWork(W2), MapWork(W5),
     ParseEntry(E5), ParseEntry(E6), MapWork(W8) >>

\* The sequences over the elements of s of length at most n.
SeqsUpTo(s, n) ==
  UNION { [ 1..k -> { s[i] : i \in 1..Len(s) } ] : k \in 0..n }

DedupRequest ==
  [ q |-> << "b" >>, max |-> 0, start |-> 0, field |-> "smart",
    sortBy |-> "relevance", sortOrder |-> "descending" ]

QuietEnv ==
  [ feed |-> << >>, catalog |-> NativeEntries, works |-> << >>, s2 |-> S2TableMixed,
    faults |-> NoFaults ]

InitDedup ==
  /\ req = DedupRequest
  /\ env = QuietEnv
  /\ pc = "dedup"
  /\ mixed \in SeqsUpTo(DedupRecords, MaxMixed)
  /\ calls = << >>
  /\ papers = << >>
  /\ papersFiltered = << >>
  /\ arxivSortTs = << >>
  /\ seen = {}
  /\ collected = << >>
  /\ pageNum = 0
  /\ openalexRaw = << >>
  /\ oaArxivPapers = << >>
  /\ openalex = << >>
  /\ out = << >>
  /\ pool = << >>
  /\ s2Ids = << >>
  /\ s2Map = << >>
  /\ response = << >>
  /\ replies = << >>
  /\ history = << >>
  /\ SummaryIdle
  /\ norm = NormIdle

NextDedup ==
  \/ Dedup
  \/ S2Reply
  \/ Rank

SpecDedup == InitDedup /\ [][NextDedup]_vars

\* The final pass has run.
Deduplicated == pc \in { "awaitS2", "rank", "done" }

\* Two records collide: their normalised landing URLs or their normalised
\* titles are the same.
Collide(a, b) ==
  \/ a.absUrl # << >> /\ b.absUrl # << >> /\ normUrl(a.absUrl) = normUrl(b.absUrl)
  \/ a.title # << >> /\ b.title # << >> /\ normTitle(a.title) = normTitle(b.title)

\* C3: native-feed precedence.  For any native record and any works record of
\* the merged input that collide, the deduplicated output retains the native
\* record and not the works record.  Violated: a native record that collides
\* with two kept works records replaces only the one its first key finds.
C3_NativeFeedPrecedence ==
  Deduplicated =>
    \A i, j \in 1..Len(mixed) :
      (/\ mixed[i].source = "arxiv"
       /\ mixed[j].source = "openalex"
       /\ Collide(mixed[i], mixed[j]))
      => mixed[i] \in Range(out) /\ mixed[j] \notin Range(out)

\* C3, the failing case: the output retains a native record together with a
\* works record that collides with it.
C3_CollidingPairRetained ==
  /\ Deduplicated
  /\ \E i, j \in 1..Len(out) :
       /\ out[i].source = "arxiv"
       /\ out[j].source = "openalex"
       /\ Collide(out[i], out[j])

\* C4: dedup idempotence.  The final pass applied to its own output returns
\* the same set of records.  Violated on the outputs that C3's flaw leaves
\* with a colliding pair.
C4_DedupIdempotent ==
  Deduplicated => Range(FinalDedup(out)) = Range(out)

\* C4, the failing case: a second pass removes a record of the first pass's
\* output.
C4_SecondPassRemoves ==
  /\ Deduplicated
  /\ \E i \in 1..Len(out) : out[i] \notin Range(FinalDedup(out))

(***************************************************************************)
(* The ranker on its own: the handler from the enriched pool on, for every *)
(* pool of at most MaxPool of the records below and every sort mode.       *)
(***************************************************************************)

MaxPool == 3

\* A pool record with the fields the ranker reads; cit and inf are << >>
\* (field absent) or << n >>.
RankRecord(cit, inf, published, doi, id, url, title) ==
  WithCitations([ arxivId |-> id, title |-> title, summary |-> << >>,
                  published |-> published, authors |-> << >>, absUrl |-> url,
                  pdfUrl |-> url, doi |-> doi, source |-> "arxiv" ],
                S2Item(cit, inf))


\* Records that differ in one field of the comparison at a time; the keys
\* come from the DOI, the id (in upper case), the URL or the title.  The last
\* record has the DOI, the counts and the date of the first under another id:
\* the final pass (route.ts 659-661) keys records by id, URL and title, never
\* by DOI, so both reach the pool.
RankRecords ==
  << RankRecord(<< 2 >>, << 1 >>, Y2021, << "b" >>, << "z" >>, << >>, << >>),
     RankRecord(<< 2 >>, << 1 >>, Y2021, << >>, << "A" >>, << >>, << >>),
     RankRecord(<< 2 >>, << >>, Y2021, << >>, << >>, << "c" >>, << >>),
     RankRecord(<< 2 >>, << 1 >>, Y2020, << >>, << >>, << >>, << "d" >>),
     RankRecord(<< 0 >>, << 0 >>, Y2021, << >>, << "e" >>, << >>, << >>),
     RankRecord(<< >>, << >>, Y2021, << >>, << "f" >>, << >>, << >>),
     RankRecord(<< >>, << >>, << >>, << >>, << "g" >>, << >>, << >>),
     RankRecord(<< 1 >>, << 1 >>, Y2020, << >>, << "h" >>, << >>, << >>),
     RankRecord(<< 2 >>, << 1 >>, Y2021, << "b" >>, << "y" >>, << >>, << >>) >>

RankRequests ==
  { [ q |-> << "b" >>, max |-> 0, start |-> 0, field |-> "smart",
      sortBy |-> s, sortOrder |-> o ] : s \in SortKeys, o \in SortOrders }

\* The length from which the citation term (at most 0.15) can outweigh one
\* step of the base term (1 / length).
BoostLen == 7

\* Pools of BoostLen records of which each has two citations, none, or no
\* citation field.
BoostPools == [ 1..BoostLen -> { RankRecords[1], RankRecords[5], RankRecords[6] } ]

InitRank ==
  /\ req \in RankRequests
  /\ env = QuietEnv
  /\ pc = "rank"
  /\ \/ pool \in SeqsUpTo(RankRecords, MaxPool)
     \/ req.sortBy = "relevance" /\ req.sortOrder = "descending" /\ pool \in BoostPools
  /\ s2Ids = [ i \in 1..Len(pool) |-> << >> ]
  /\ s2Map = << >>
  /\ calls = << >>
  /\ papers = << >>
  /\ papersFiltered = << >>
  /\ arxivSortTs = << >>
  /\ seen = {}
  /\ collected = << >>
  /\ pageNum = 0
  /\ openalexRaw = << >>
  /\ oaArxivPapers = << >>
  /\ openalex = << >>
  /\ mixed = << >>
  /\ out = << >>
  /\ response = << >>
  /\ replies = << >>
  /\ history = << >>
  /\ SummaryIdle
  /\ norm = NormIdle

NextRank == Rank

SpecRank == InitRank /\ [][NextRank]_vars

\* x is before, or at the same place as, y in the requested direction.
InDirection(x, y) == IF req.sortOrder = "ascending" THEN x <= y ELSE x >= y

\* a <= b for strings in code-unit order.
StrLeq(a, b) == a = b \/ StrLess(a, b)

\* The lexicographic key: the DOI, else the id, else the landing URL, else the
\* title, in lower case.
LexKey(p) ==
  ToLower(IF p.doi # << >> THEN p.doi
          ELSE IF p.arxivId # << >> THEN p.arxivId
          ELSE IF p.absUrl # << >> THEN p.absUrl
          ELSE p.title)

\* a is not after b in the order of the citations mode: by citation count,
\* then influential count, then publication timestamp, each in the requested
\* direction, then by the key, ascending.
CitationsNotAfter(a, b) ==
  IF CitOrZero(a) # CitOrZero(b) THEN InDirection(CitOrZero(a), CitOrZero(b))
  ELSE IF InfOrZero(a) # InfOrZero(b) THEN InDirection(InfOrZero(a), InfOrZero(b))
  ELSE IF dateMs(a.published) # dateMs(b.published)
       THEN InDirection(dateMs(a.published), dateMs(b.published))
  ELSE StrLeq(LexKey(a), LexKey(b))

\* a is not after b in the order of the date modes: by publication timestamp
\* in the requested direction, then by citation count and influential count,
\* both descending, then by the key, ascending.
DateNotAfter(a, b) ==
  IF dateMs(a.published) # dateMs(b.published)
  THEN InDirection(dateMs(a.published), dateMs(b.published))
  ELSE IF CitOrZero(a) # CitOrZero(b) THEN CitOrZero(a) > CitOrZero(b)
  ELSE IF InfOrZero(a) # InfOrZero(b) THEN InfOrZero(a) > InfOrZero(b)
  ELSE StrLeq(LexKey(a), LexKey(b))

\* C8: in citations mode every two adjacent records of the response are in the
\* order of citation count in the requested direction, ties broken by
\* influential count, then publication timestamp, then the lexicographic key;
\* the response holds the records of the pool.
C8_CitationsOrder ==
  (Served /\ req.sortBy = "citations") =>
    /\ \A i \in 1..(Len(response) - 1) : CitationsNotAfter(response[i], response[i + 1])
    /\ Range(response) = Range(pool)

\* C8, its case: a served citations-mode response of three records in which
\* one adjacent pair is decided by the citation count and the other only by
\* the lexicographic key.
C8_CountAndKeyDecide ==
  /\ Served
  /\ req.sortBy = "citations"
  /\ Len(response) = 3
  /\ \E i, j \in 1..2 :
       /\ CitOrZero(response[i]) # CitOrZero(response[i + 1])
       /\ CitOrZero(response[j]) = CitOrZero(response[j + 1])
       /\ InfOrZero(response[j]) = InfOrZero(response[j + 1])
       /\ dateMs(response[j].published) = dateMs(response[j + 1].published)
       /\ LexKey(response[j]) # LexKey(response[j + 1])

\* C9: in the date modes every two adjacent records of the response are in the
\* order of publication timestamp in the requested direction; records of
\* equal timestamp are in the order of citation count descending, then
\* influential count descending, then the lexicographic key, whatever the
\* direction.
C9_DateOrder ==
  (Served /\ req.sortBy \in { "submittedDate", "lastUpdatedDate" }) =>
    /\ \A i \in 1..(Len(response) - 1) : DateNotAfter(response[i], response[i + 1])
    /\ Range(response) = Range(pool)

\* C9, its case: a served ascending date-mode response in which two records of
\* equal timestamp are ordered by their citation counts, the higher first, and
\* another pair by the timestamp.
C9_AscendingWithCountTie ==
  /\ Served
  /\ req.sortBy \in { "submittedDate", "lastUpdatedDate" }
  /\ req.sortOrder = "ascending"
  /\ Len(response) = 3
  /\ \E i, j \in 1..2 :
       /\ dateMs(response[i].published) < dateMs(response[i + 1].published)
       /\ dateMs(response[j].published) = dateMs(response[j + 1].published)
       /\ CitOrZero(response[j]) > CitOrZero(response[j + 1])

\* The highest citation count a record is raised to.
MaxCount == 3

\* The place of position i of the pool in a ranking given as positions.
RankOf(order, i) == CHOOSE k \in 1..Len(order) : order[k] = i

\* The list with the citation count of the record at position i set to c.
Raised(list, i, c) ==
  [ list EXCEPT ![i] =
      WithCitations(list[i],
                    S2Item(<< c >>,
                           IF HasInf(list[i])
                           THEN << list[i].influentialCitationCount >> ELSE << >>)) ]

\* C11: relevance boost monotonicity.  In relevance mode the response is the
\* ranking of the pool, and for every position of the pool and every strictly
\* higher citation count of the record there, the record's place in the
\* ranking of the pool so changed is not below its place in the ranking of the
\* pool.
C11_RelevanceBoostMonotone ==
  (Served /\ req.sortBy = "relevance" /\ Len(pool) <= maxN) =>
    /\ response = [ k \in 1..Len(pool) |-> pool[RelevanceOrder(pool)[k]] ]
    /\ \A i \in 1..Len(pool) :
         \A c \in (CitOrZero(pool[i]) + 1)..MaxCount :
           RankOf(RelevanceOrder(Raised(pool, i, c)), i) <= RankOf(RelevanceOrder(pool), i)

\* C11, its case: a served relevance-mode response in which a record is
\* ranked above a record of an earlier position, and a position whose record
\* moves up when its citation count is raised.
C11_BoostMovesRecordUp ==
  /\ Served
  /\ req.sortBy = "relevance"
  /\ Len(pool) = BoostLen
  /\ \E k \in 1..(Len(pool) - 1) : RelevanceOrder(pool)[k] > RelevanceOrder(pool)[k + 1]
  /\ \E i \in 1..Len(pool) :
       \E c \in (CitOrZero(pool[i]) + 1)..MaxCount :
         RankOf(RelevanceOrder(Raised(pool, i, c)), i) < RankOf(RelevanceOrder(pool), i)

(***************************************************************************)
(* A session of three requests against the same upstream answers: pages    *)
(* [0, k), [k, k + 1) and [0, k + 1) of one query, with a native feed long *)
(* enough to fill the candidate pool of each.                              *)
(***************************************************************************)

\* The i-th entry of the long feed: paper i, titled "P<i>".
LongFeedEntry(i) ==
  [ id |-> << "h", "t", "t", "p", ":", "/", "/", "a", "r", "x", "i", "v", ".", "o", "r", "g", "/", "a", "b", "s", "/" >> \o Digits(i),
    title |-> << "P" >> \o Digits(i),
    summary |-> << >>,
    published |-> IF i % 2 = 0 THEN Y2020 ELSE Y2021,
    updated |-> << >>,
    names |-> << << "A", " ", "B" >> >>,
    doi |-> << >> ]

\* One entry more than the pool of a request that ends at PoolFloor \div
\* PoolFactor + 1.
LongFeedLen == PoolFloor + PoolFactor + 1

\* The first entry outside the smallest pool.
BeyondFloor == PoolFloor + 1

\* The citation service knows one paper of the long feed, the first one
\* outside the smallest pool, and knows it as cited.
S2TableLong == (S_ARXIV \o Digits(BeyondFloor)) :> S2Item(<< 5 >>, << 1 >>)

PageEnv ==
  [ feed |-> [ i \in 1..LongFeedLen |-> LongFeedEntry(i) ],
    catalog |-> NativeEntries,
    works |-> << W2 >>,
    s2 |-> S2TableLong,
    faults |-> NoFaults ]

\* The sizes k of the first page: the last one whose page [0, k + 1) is
\* ranked over the smallest pool, and the next.
PageSizes == { PoolFloor \div PoolFactor - 1, PoolFloor \div PoolFactor }

PageRequests ==
  { [ q |-> << "b" >>, max |-> k, start |-> 0, field |-> "smart",
      sortBy |-> s, sortOrder |-> o ] :
      k \in PageSizes, s \in SortKeys \ { "relevance" }, o \in SortOrders }

InitPage ==
  /\ req \in PageRequests
  /\ env = PageEnv
  /\ pc = "start"
  /\ calls = << >>
  /\ papers = << >>
  /\ papersFiltered = << >>
  /\ arxivSortTs = << >>
  /\ seen = {}
  /\ collected = << >>
  /\ pageNum = 0
  /\ openalexRaw = << >>
  /\ oaArxivPapers = << >>
  /\ openalex = << >>
  /\ mixed = << >>
  /\ out = << >>
  /\ pool = << >>
  /\ s2Ids = << >>
  /\ s2Map = << >>
  /\ response = << >>
  /\ replies = << >>
  /\ history = << >>
  /\ SummaryIdle
  /\ norm = NormIdle

\* The client asks for the next page of the session: after [0, k) the page
\* [k, k + 1), then the page [0, k + 1).  Every request starts from nothing
\* (route.ts 462: no state outlives a call of GET).
NextRequest ==
  /\ pc = "done"
  /\ Len(history) < 2
  /\ history' = Append(history, [ req |-> req, response |-> response ])
  /\ req' = IF history = << >>
            THEN [ req EXCEPT !.start = req.max, !.max = 1 ]
            ELSE [ req EXCEPT !.start = 0, !.max = history[1].req.max + 1 ]
  /\ pc' = "start"
  /\ calls' = << >>
  /\ papers' = << >>
  /\ papersFiltered' = << >>
  /\ arxivSortTs' = << >>
  /\ seen' = {}
  /\ collected' = << >>
  /\ pageNum' = 0
  /\ openalexRaw' = << >>
  /\ oaArxivPapers' = << >>
  /\ openalex' = << >>
  /\ mixed' = << >>
  /\ out' = << >>
  /\ pool' = << >>
  /\ s2Ids' = << >>
  /\ s2Map' = << >>
  /\ response' = << >>
  /\ replies' = << >>
  /\ UNCHANGED << env, summaryVars, norm >>

NextPage ==
  \/ Begin
  \/ ArxivReply
  \/ OpenAlexStart
  \/ PageReply
  \/ LinkStart
  \/ Merge
  \/ Dedup
  \/ S2Reply
  \/ Rank
  \/ NextRequest

SpecPage == InitPage /\ [][NextPage]_vars

\* The third request of a session has been served.
SessionServed == Served /\ Len(history) = 2

\* C2: pagination consistency.  For a non-relevance sort and the same upstream
\* answers, the response for offset 0 / limit k followed by the response for
\* offset k / limit 1 equals the response for offset 0 / limit k + 1.
\* Violated: the candidate pool grows with offset + limit, so that the three
\* requests are not ranked over the same pool.
C2_PaginationConsistency ==
  SessionServed => history[1].response \o history[2].response = response

\* C2, the failing case: in citations mode the first record of page [0, k + 1)
\* is in neither of the pages [0, k) and [k, k + 1).
C2_TopRecordMissed ==
  /\ SessionServed
  /\ req.sortBy = "citations"
  /\ response # << >>
  /\ response[1] \notin Range(history[1].response \o history[2].response)

(***************************************************************************)
(* Author queries: requests with field = author against a feed entry and a *)
(* works row that carry the same author names.                             *)
(***************************************************************************)

\* The author names of the scenarios: "J. Smith, A. Lee"; a surname that
\* only starts with the queried one; a hyphenated name; a name that ends with
\* a hyphen; no name at all.
AuthorNames ==
  { << << "J", ".", " ", "S", "m", "i", "t", "h" >>, << "A", ".", " ", "L", "e", "e" >> >>,
    << << "J", "o", "h", "n", " ", "S", "m", "i", "t", "h", "s", "o", "n" >> >>,
    << << "A", ".", " ", "S", "m", "i", "t", "h", "-", "L", "e", "e" >> >>,
    << << "B", ".", " ", "S", "m", "i", "t", "h", "-" >> >>,
    << >> }

\* The queries: the four of the example; punctuation, case and a double
\* blank; a given token of another author; a prefix of a given name; a full
\* name; no token at all; tokens with a hyphen; an initial with a period.
AuthorQueries ==
  { << "s", "m", "i", "t", "h" >>,
    << "j", " ", "s", "m", "i", "t", "h" >>,
    << "l", "e", "e", " ", "a" >>,
    << "b", "r", "o", "w", "n" >>,
    << "J", ".", " ", " ", "S", "M", "I", "T", "H", "!" >>,
    << "a", " ", "s", "m", "i", "t", "h" >>,
    << "j", "o", " ", "s", "m", "i", "t", "h", "s", "o", "n" >>,
    << "j", "o", "h", "n", " ", "s", "m", "i", "t", "h", "s", "o", "n" >>,
    << "?" >>,
    << "s", "m", "i", "t", "h", "-" >>,
    << "s", "m", "i", "t", "h", "-", "l", "e", "e" >>,
    << "a", ".", " ", "l", "e", "e" >> }

AuthorEntry(names) ==
  [ id |-> << "h", "t", "t", "p", ":", "/", "/", "a", "r", "x", "i", "v", ".", "o", "r", "g", "/", "a", "b", "s", "/", "7", "v", "1" >>,
    title |-> << "N" >>,
    summary |-> << >>,
    published |-> Y2021,
    updated |-> << >>,
    names |-> names,
    doi |-> << >> ]

AuthorWork(names) ==
  [ id |-> << "W", "7" >>,
    display_name |-> << "O" >>,
    names |-> names,
    publication_date |-> Y2020,
    inv |-> << >>,
    landing |-> << "h", "t", "t", "p", "s", ":", "/", "/", "x", ".", "o", "r", "g", "/", "7" >>,
    doi |-> << >> ]

InitAuthor ==
  /\ \E q \in AuthorQueries :
       req = [ q |-> q, max |-> 0, start |-> 0, field |-> "author",
               sortBy |-> "relevance", sortOrder |-> "descending" ]
  /\ \E names \in AuthorNames :
       env = [ feed |-> << AuthorEntry(names) >>, catalog |-> NativeEntries,
               works |-> << AuthorWork(names) >>, s2 |-> S2TableEmpty,
               faults |-> NoFaults ]
  /\ pc = "start"
  /\ calls = << >>
  /\ papers = << >>
  /\ papersFiltered = << >>
  /\ arxivSortTs = << >>
  /\ seen = {}
  /\ collected = << >>
  /\ pageNum = 0
  /\ openalexRaw = << >>
  /\ oaArxivPapers = << >>
  /\ openalex = << >>
  /\ mixed = << >>
  /\ out = << >>
  /\ pool = << >>
  /\ s2Ids = << >>
  /\ s2Map = << >>
  /\ response = << >>
  /\ replies = << >>
  /\ history = << >>
  /\ SummaryIdle
  /\ norm = NormIdle

NextAuthor ==
  \/ Begin
  \/ ArxivReply
  \/ OpenAlexStart
  \/ AuthorsReply
  \/ PageReply
  \/ LinkStart
  \/ Merge
  \/ Dedup
  \/ S2Reply
  \/ Rank

SpecAuthor == InitAuthor /\ [][NextAuthor]_vars

\* t occurs in a with no letter, digit or underscore next to it on either side.
ContainsWord(a, t) ==
  \E i \in 1..Len(a) :
    /\ MatchesAt(a, i, t)
    /\ i = 1 \/ ~IsWord(a[i - 1])
    /\ i + Len(t) > Len(a) \/ ~IsWord(a[i + Len(t)])

\* The acceptance the filter is described by: some comma-separated author
\* string contains the last token as a whole word and every preceding token
\* as a whole word (a single letter followed by a period is a whole word,
\* the period not being part of a word).
Accepts(authors, q) ==
  LET toks == QueryTokens(q)
      parts == SplitOn(authors, ",")
  IN  /\ toks # << >>
      /\ \E k \in 1..Len(parts) :
           \A g \in 1..Len(toks) : ContainsWord(ToLower(parts[k]), toks[g])

\* Every token of the query begins and ends with a letter or a digit.
PlainTokens(q) ==
  \A g \in 1..Len(QueryTokens(q)) :
    LET t == QueryTokens(q)[g] IN IsWord(t[1]) /\ IsWord(t[Len(t)])

\* The filter has run on both adapters' records.
Filtered == pc \in { "dedup", "awaitS2", "rank", "done" } /\ req.field = "author"

\* The works records before the filter: none is linked or seen in these
\* scenarios.
Unfiltered == LinkAndFilter(openalexRaw, oaArxivPapers, seen)

\* The records the filter kept are those the predicate holds for.
KeptWhere(P(_)) ==
  /\ \A i \in 1..Len(papers) : (papers[i] \in Range(papersFiltered)) <=> P(papers[i].authors)
  /\ \A i \in 1..Len(Unfiltered) : (Unfiltered[i] \in Range(openalex)) <=> P(Unfiltered[i].authors)

\* C12 as stated: the author filter accepts a record exactly when one of its
\* author strings contains the last query token and every preceding token
\* as a whole word.
C12_AuthorFilterExact ==
  Filtered => LET P(a) == Accepts(a, req.q) IN KeptWhere(P)

\* C12, amended: for a query whose tokens begin and end with a letter or a
\* digit the author filter accepts a record exactly when one of its author
\* strings contains the last query token and every preceding token as a whole
\* word; a query without any token accepts every record.
C12_AuthorFilterOnPlainTokens ==
  Filtered =>
    /\ PlainTokens(req.q) /\ QueryTokens(req.q) # << >> =>
         LET P(a) == Accepts(a, req.q) IN KeptWhere(P)
    /\ QueryTokens(req.q) = << >> =>
         papersFiltered = papers /\ openalex = Unfiltered

\* C12, its case: the query "j smith" has been answered with the native record
\* and the works record of "J. Smith, A. Lee".
C12_InitialAndSurnameAccepted ==
  /\ Served
  /\ req.field = "author"
  /\ req.q = << "j", " ", "s", "m", "i", "t", "h" >>
  /\ Len(response) = 2
  /\ \A i \in 1..2 : response[i].authors = << "J", ".", " ", "S", "m", "i", "t", "h", ",", " ", "A", ".", " ", "L", "e", "e" >>

(***************************************************************************)
(* Abstracts: requests against a works index whose one row carries an      *)
(* inverted index.                                                         *)
(***************************************************************************)

\* The highest position of a generated inverted index.
MaxPos == 3

S_deep == << "d", "e", "e", "p" >>
S_learning == << "l", "e", "a", "r", "n", "i", "n", "g" >>

\* The positions in 0..MaxPos at which the assignment f puts the word w,
\* ascending.
PositionsOf(f, w) ==
  LET I == { q \in 0..MaxPos : f[q] = w }
  IN  [ k \in 1..Cardinality(I) |->
          CHOOSE q \in I : Cardinality({ r \in I : r < q }) = k - 1 ]

\* The inverted index of an assignment of a word, or of none (<< >>), to
\* each position, with its keys in the given order; a word without position
\* has no key.
IndexOfWords(f, keys) ==
  SelectSeq([ k \in 1..Len(keys) |-> << keys[k], PositionsOf(f, keys[k]) >> ],
            LAMBDA e : e[2] # << >>)

\* {"deep":[0,3],"learning":[1]}
ExampleIndex == << << S_deep, << 0, 3 >> >>, << S_learning, << 1 >> >> >>

\* The generated indexes, with gaps and in both key orders; an index with
\* an unsorted position list; one with two words at the same position.
InvIndexes ==
  { IndexOfWords(f, keys) :
      f \in [ 0..MaxPos -> { << >>, S_deep, S_learning } ],
      keys \in { << S_deep, S_learning >>, << S_learning, S_deep >> } }
  \cup { ExampleIndex,
         << << S_deep, << 3, 0 >> >>, << S_learning, << 2 >> >> >>,
         << << S_learning, << 1, 0 >> >>, << S_deep, << 1 >> >> >> }

AbstractWork(inv) ==
  [ id |-> << "W", "8" >>,
    display_name |-> << "O" >>,
    names |-> << >>,
    publication_date |-> Y2020,
    inv |-> inv,
    landing |-> << "h", "t", "t", "p", "s", ":", "/", "/", "x", ".", "o", "r", "g", "/", "8" >>,
    doi |-> << "h", "t", "t", "p", "s", ":", "/", "/", "d", "o", "i", ".", "o", "r", "g", "/", "1", "0", ".", "1", "/", "x" >> ]

InitAbstract ==
  /\ \E s \in { "relevance", "citations" } :
       req = [ q |-> << "b" >>, max |-> 0, start |-> 0, field |-> "smart",
               sortBy |-> s, sortOrder |-> "descending" ]
  /\ \E inv \in InvIndexes :
       env = [ feed |-> << >>, catalog |-> NativeEntries,
               works |-> << AbstractWork(inv) >>, s2 |-> S2TableMixed,
               faults |-> NoFaults ]
  /\ pc = "start"
  /\ calls = << >>
  /\ papers = << >>
  /\ papersFiltered = << >>
  /\ arxivSortTs = << >>
  /\ seen = {}
  /\ collected = << >>
  /\ pageNum = 0
  /\ openalexRaw = << >>
  /\ oaArxivPapers = << >>
  /\ openalex = << >>
  /\ mixed = << >>
  /\ out = << >>
  /\ pool = << >>
  /\ s2Ids = << >>
  /\ s2Map = << >>
  /\ response = << >>
  /\ replies = << >>
  /\ history = << >>
  /\ SummaryIdle
  /\ norm = NormIdle

NextAbstract ==
  \/ Begin
  \/ ArxivReply
  \/ OpenAlexStart
  \/ PageReply
  \/ LinkStart
  \/ Merge
  \/ Dedup
  \/ S2Reply
  \/ Rank

SpecAbstract == InitAbstract /\ [][NextAbstract]_vars

\* The (word, position) pairs of an inverted index, each named by the place
\* of its word among the keys and the place of its position in that word's
\* list.
PairsOf(inv) ==
  UNION { { << k, j >> : j \in 1..Len(inv[k][2]) } : k \in 1..Len(inv) }

\* text is the words of all pairs of inv in some order of ascending position,
\* one word per pair, joined by one blank.
IsReconstruction(inv, text) ==
  LET pairs == PairsOf(inv)
      n == Cardinality(pairs)
  IN  \E o \in [ 1..n -> pairs ] :
        /\ \A a, b \in 1..n : a # b => o[a] # o[b]
        /\ \A a \in 1..(n - 1) : inv[o[a][1]][2][o[a][2]] <= inv[o[a + 1][1]][2][o[a + 1][2]]
        /\ text = Join([ a \in 1..n |-> inv[o[a][1]][1] ], << " " >>)

\* C13: abstract reconstruction.  The abstract of a served works record is
\* the words of all (position, word) pairs of its inverted index ordered by
\* ascending position and joined by exactly one blank, one word per pair and
\* nothing for a gap; {"deep":[0,3],"learning":[1]} gives "deep learning deep".
C13_AbstractReconstruction ==
  (Served /\ env.works # << >> /\ "inv" \in DOMAIN env.works[1]) =>
    /\ Len(response) = 1
    /\ IsReconstruction(env.works[1].inv, response[1].summary)
    /\ env.works[1].inv = ExampleIndex =>
         response[1].summary = << "d", "e", "e", "p", " ", "l", "e", "a", "r", "n", "i", "n", "g", " ", "d", "e", "e", "p" >>

\* C13, its case: the example index has been served as "deep learning deep".
C13_ExampleServed ==
  /\ Served
  /\ env.works = << AbstractWork(ExampleIndex) >>
  /\ response # << >>
  /\ response[1].summary = << "d", "e", "e", "p", " ", "l", "e", "a", "r", "n", "i", "n", "g", " ", "d", "e", "e", "p" >>

(***************************************************************************)
(* The summary workflow: saving a paper (src/app/api/saved/route.ts POST   *)
(* and confirmSaveWithLabels of src/app/page.tsx) and summarizing it       *)
(* (POST of src/unnamed/part_000, called by the search page after a save   *)
(* and by generateSummary of the saved-papers page).  Every await of a     *)
(* handler is a step of its own, so requests interleave as on the server.  *)
(***************************************************************************)

\* What the generator returns, trimmed: nothing, or one of two summaries.
SummaryTexts == { << >>, << "s" >>, << "t" >> }

\* The variables of a search request.
searchVars ==
  << req, env, pc, calls, papers, papersFiltered, arxivSortTs, seen, collected,
     pageNum, openalexRaw, oaArxivPapers, openalex, mixed, out, pool, s2Ids,
     s2Map, response, replies, history >>

\* The row holds a summary: paper.aiSummary && paper.aiSummary.trim()
HasSummary(r) == r # << >> /\ Trim(r[1]) # << >>

\* The save request reads the row (saved/route.ts 76-80).
SaveLookup ==
  /\ saving.pc = "idle"
  /\ saving' = [ pc |-> "upsert", shouldSummarize |-> ~HasSummary(row) ]
  /\ UNCHANGED << searchVars, norm, row, summarizing, generations, writes >>

\* The upsert (saved/route.ts 82-103): a new row has an empty aiSummary, an
\* existing row keeps its own.
SaveUpsert ==
  /\ saving.pc = "upsert"
  /\ row' = IF row = << >> THEN << << >> >> ELSE row
  /\ saving' = [ saving EXCEPT !.pc = "done" ]
  /\ UNCHANGED << searchVars, norm, summarizing, generations, writes >>

\* The search page fires the summarize request after the save answered
\* shouldSummarize (page.tsx 115-124).
AutoSummarize ==
  /\ saving.pc = "done"
  /\ saving.shouldSummarize
  /\ summarizing[0].pc = "idle"
  /\ summarizing' = [ summarizing EXCEPT ![0].pc = "lookup" ]
  /\ UNCHANGED << searchVars, norm, row, saving, generations, writes >>

\* generateSummary of the saved-papers page: the paper is in the list, and
\* the button is disabled while a request of this page is under way.
ManualSummarize ==
  /\ row # << >>
  /\ \A r \in 1..MaxManual : summarizing[r].pc \in { "idle", "done", "failed" }
  /\ \E r \in 1..MaxManual :
       /\ summarizing[r].pc = "idle"
       /\ \A q \in 1..(r - 1) : summarizing[q].pc # "idle"
       /\ summarizing' = [ summarizing EXCEPT ![r].pc = "lookup" ]
  /\ UNCHANGED << searchVars, norm, row, saving, generations, writes >>

\* POST of the summarize route up to the call of the generator (part_000
\* 133-153): a missing paper is an error, a stored summary is returned as it
\* is, otherwise the generator is invoked.
SumLookup ==
  /\ \E r \in Summarizers :
       /\ summarizing[r].pc = "lookup"
       /\ IF row = << >>
          THEN /\ summarizing' = [ summarizing EXCEPT ![r].pc = "failed" ]
               /\ UNCHANGED generations
          ELSE IF HasSummary(row)
          THEN /\ summarizing' = [ summarizing EXCEPT ![r] = [ pc |-> "done", summary |-> row[1] ] ]
               /\ UNCHANGED generations
          ELSE /\ summarizing' = [ summarizing EXCEPT ![r].pc = "generating" ]
               /\ generations' = Append(generations, r)
  /\ UNCHANGED << searchVars, norm, row, saving, writes >>

\* The generator returns or throws (part_000 153-157, 161-166): the update
\* of the row is issued with what it returned.
SumGenerated ==
  /\ \E r \in Summarizers :
       /\ summarizing[r].pc = "generating"
       /\ \/ summarizing' = [ summarizing EXCEPT ![r].pc = "failed" ]
          \/ \E text \in SummaryTexts :
               summarizing' = [ summarizing EXCEPT ![r] = [ pc |-> "updating", summary |-> text ] ]
  /\ UNCHANGED << searchVars, norm, row, saving, generations, writes >>

\* The update of the row (part_000 155-160).
SumStored ==
  /\ \E r \in Summarizers :
       /\ summarizing[r].pc = "updating"
       /\ row' = << summarizing[r].summary >>
       /\ writes' = Append(writes, summarizing[r].summary)
       /\ summarizing' = [ summarizing EXCEPT ![r].pc = "done" ]
  /\ UNCHANGED << searchVars, norm, saving, generations >>

InitSummary ==
  /\ req = DedupRequest
  /\ env = QuietEnv
  /\ pc = "done"
  /\ calls = << >>
  /\ papers = << >>
  /\ papersFiltered = << >>
  /\ arxivSortTs = << >>
  /\ seen = {}
  /\ collected = << >>
  /\ pageNum = 0
  /\ openalexRaw = << >>
  /\ oaArxivPapers = << >>
  /\ openalex = << >>
  /\ mixed = << >>
  /\ out = << >>
  /\ pool = << >>
  /\ s2Ids = << >>
  /\ s2Map = << >>
  /\ response = << >>
  /\ replies = << >>
  /\ history = << >>
  /\ SummaryIdle
  /\ norm = NormIdle

NextSummary ==
  \/ SaveLookup
  \/ SaveUpsert
  \/ AutoSummarize
  \/ ManualSummarize
  \/ SumLookup
  \/ SumGenerated
  \/ SumStored

SpecSummary == InitSummary /\ [][NextSummary]_vars

\* C14: summaries are generated once per paper.  Whatever the order and the
\* interleaving of the summarize requests for the saved paper, the generator
\* is invoked at most once, and no summary is written over a stored
\* non-empty summary.  Violated: the request fired after the save and a
\* manual request both read the empty summary before either has stored one.
C14_SummaryGeneratedOnce ==
  /\ Len(generations) <= 1
  /\ \A j \in 1..(Len(writes) - 1) : writes[j] = << >>

\* C14, the failing case: the generator ran for two requests that both
\* returned a summary, and the second summary has replaced the first.
C14_SummaryReplaced ==
  /\ Len(generations) = 2
  /\ Len(writes) = 2
  /\ writes[1] # << >>
  /\ writes[2] # << >>
  /\ writes[1] # writes[2]
  /\ row = << writes[2] >>

(***************************************************************************)
(* Properties of the cross-source linker                                   *)
(***************************************************************************)

\* The linker has run.
Linked == pc \in { "dedup", "awaitS2", "rank", "done" }

\* The native identifier a record is known by to the linker: version-stripped
\* and in lower case.
LinkKey(id) == ToLower(stripArxivVersion(id))

\* The works record p points at a native paper.
PointsAtNative(p) == p.source = "openalex" /\ LinkedIdRaw(p) # << >>

\* The lookup returned a record for the native paper p points at.
LookedUp(p) ==
  \E k \in 1..Len(oaArxivPapers) :
    LinkKey(oaArxivPapers[k].arxivId) = LinkKey(LinkedIdRaw(p))

\* Two records have the same normalised landing or PDF URL, or the same
\* normalised title.
SameUrlOrTitle(a, b) ==
  \/ (({ normUrl(a.absUrl), normUrl(a.pdfUrl) } \cap { normUrl(b.absUrl), normUrl(b.pdfUrl) })
        \ { << >> }) # {}
  \/ normTitle(a.title) # << >> /\ normTitle(a.title) = normTitle(b.title)

CapRows == PerPage * PageCap
WorksLengths == { 0, PerPage - 1, PerPage + PerPage - 1, CapRows, CapRows + PerPage, CapRows + PerPage + 1 }

\* Relevance-mode requests, which hand their own window to the adapter: one
\* row, a window over two pages, the rows of the cap, one row more, and one
\* row more than the pages read before the loop is left for the cap.
PagingRequests ==
  { [ q |-> << "b" >>, max |-> m, start |-> st, field |-> "smart",
      sortBy |-> "relevance", sortOrder |-> "descending" ] :
      m \in { 1, PerPage + 1, CapRows, CapRows + 1, CapRows + PerPage + 1 },
      st \in { 0, PerPage - 1 } }

\* The works index answers every page, or may answer any page with a
\* non-success status.
\* The first row of the second page is a row like the others ("full"), a row
\* with an id and no landing page and no DOI ("bare"), or a row with none of
\* the three ("blank").
LongWorks(n, kind) ==
  [ i \in 1..n |->
      IF i # PerPage + 1 \/ kind = "full" THEN LongWork(i)
      ELSE IF kind = "bare" THEN [ LongWork(i) EXCEPT !.landing = << >> ]
      ELSE [ LongWork(i) EXCEPT !.landing = << >>, !.id = << >> ] ]

PagingEnvs ==
  { [ feed |-> << >>, catalog |-> NativeEntries,
      works |-> LongWorks(n, kind), s2 |-> S2TableEmpty,
      faults |-> f ] :
      n \in WorksLengths, f \in { NoFaults, { << "works", "nonok" >> } },
      kind \in { "full", "bare", "blank" } }

InitPaging ==
  /\ req \in PagingRequests
  /\ env \in PagingEnvs
  /\ pc = "start"
  /\ calls = << >>
  /\ papers = << >>
  /\ papersFiltered = << >>
  /\ arxivSortTs = << >>
  /\ seen = {}
  /\ collected = << >>
  /\ pageNum = 0
  /\ openalexRaw = << >>
  /\ oaArxivPapers = << >>
  /\ openalex = << >>
  /\ mixed = << >>
  /\ out = << >>
  /\ pool = << >>
  /\ s2Ids = << >>
  /\ s2Map = << >>
  /\ response = << >>
  /\ replies = << >>
  /\ history = << >>
  /\ SummaryIdle
  /\ norm = NormIdle

NextPaging ==
  \/ Begin
  \/ ArxivReply
  \/ OpenAlexStart
  \/ PageReply

SpecPaging == InitPaging /\ [][NextPaging]_vars

\* The works page requests issued so far.
PageCalls == SelectSeq(calls, LAMBDA c : c.to = "works")

\* The adapter has returned.
AdapterReturned == pc = "link"

\* C16: one invocation of the works-index adapter issues at most 20 works
\* page requests.  Violated: the cap is tested after the page counter has
\* been advanced past the page just read, with >, so a 21st page is requested.
C16_AtMostTwentyPages ==
  Len(PageCalls) <= PageCap

\* C16, the failing case: the adapter has returned after 21 page requests,
\* every one of them answered with a full page.
C16_TwentyOnePages ==
  /\ AdapterReturned
  /\ Len(PageCalls) = PageCap + 1
  /\ \A i \in 1..Len(replies) : replies[i].outcome = "ok"
  /\ Len(collected) = PerPage * (PageCap + 1)

\* C17: when a works page request is answered with a non-success status, the
\* adapter returns no record, also when earlier pages of the invocation had
\* been read.  Violated: the loop is left with the rows of the earlier pages,
\* which are sliced and mapped as usual.
C17_FailedPageYieldsNothing ==
  (AdapterReturned /\ Answered("works", "nonok")) => openalexRaw = << >>

\* C17, the failing case: the first page was read, the second was answered
\* with a non-success status, and the adapter has returned the rows of the
\* first.
C17_EarlierPagesKept ==
  /\ AdapterReturned
  /\ Len(PageCalls) = 2
  /\ replies[Len(replies) - 1] = Reply("works", "ok")
  /\ replies[Len(replies)] = Reply("works", "nonok")
  /\ Len(openalexRaw) = PerPage - OffsetInFirst
  /\ OaMaxN > PerPage

(***************************************************************************)
(* Properties of the order of the outbound calls                           *)
(***************************************************************************)

\* A call to one of these services has been issued.
Issued(services) == \E i \in 1..Len(calls) : calls[i].to \in services

\* The number of calls to, and of answers from, one of these services.
CallsTo(services) == Cardinality({ i \in 1..Len(calls) : calls[i].to \in services })
AnswersFrom(services) == Cardinality({ i \in 1..Len(replies) : replies[i].to \in services })

\* A call to one of these services is awaiting its answer.
Pending(services) == CallsTo(services) > AnswersFrom(services)

\* The services of the works-index adapter: the author sub-index and the
\* works index.
WorksServices == { "authors", "works" }

\* C18: the two source adapters run concurrently.  While the native-feed
\* search call awaits its answer the works-index adapter's first call has
\* been issued, and while a works-index call awaits its answer the
\* native-feed search call has been issued.  Violated: GET awaits the native
\* feed's answer before it calls fetchOpenAlex.
C18_AdaptersConcurrent ==
  /\ Pending({ "arxiv" }) => Issued(WorksServices)
  /\ Pending(WorksServices) => Issued({ "arxiv" })

\* C18, the failing case: the native-feed search call awaits its answer and
\* no call of the works-index adapter has been issued.
C18_NativeAwaitedAlone ==
  /\ pc = "awaitArxiv"
  /\ Pending({ "arxiv" })
  /\ ~Issued(WorksServices)

\* The first call of the works-index adapter is issued when the native feed
\* has answered.
WorksCallAfterNativeAnswer ==
  Issued(WorksServices) => AnswersFrom({ "arxiv" }) = 1

(***************************************************************************)
(* The global pool of the non-relevance sorts (route.ts 485-489, 521-522,  *)
(* 576-583, 691, 708-711): requests over the long feed with windows whose  *)
(* pool bound is the floor, the factor and the cap.                        *)
(***************************************************************************)

\* << offset, limit >> of the requests: the bound of the pool is the floor
\* for the first, five times the window's end for the second and the third,
\* and the cap for the last two.
PoolWindows ==
  { << 0, PoolFloor \div PoolFactor >>,
    << PoolFloor \div PoolFactor, 1 >>,
    << 5, 4 >>,
    << PoolCap \div PoolFactor - 1, 1 >>,
    << PoolCap \div PoolFactor - 1, 2 >> }

PoolRequests ==
  { [ q |-> << "b" >>, max |-> w[2], start |-> w[1], field |-> "smart",
      sortBy |-> s, sortOrder |-> o ] :
      w \in PoolWindows, s \in SortKeys \ { "relevance" }, o \in SortOrders }

InitPool ==
  /\ req \in PoolRequests
  /\ env = PageEnv
  /\ pc = "start"
  /\ calls = << >>
  /\ papers = << >>
  /\ papersFiltered = << >>
  /\ arxivSortTs = << >>
  /\ seen = {}
  /\ collected = << >>
  /\ pageNum = 0
  /\ openalexRaw = << >>
  /\ oaArxivPapers = << >>
  /\ openalex = << >>
  /\ mixed = << >>
  /\ out = << >>
  /\ pool = << >>
  /\ s2Ids = << >>
  /\ s2Map = << >>
  /\ response = << >>
  /\ replies = << >>
  /\ history = << >>
  /\ SummaryIdle
  /\ norm = NormIdle

NextPool ==
  \/ Begin
  \/ ArxivReply
  \/ OpenAlexStart
  \/ PageReply
  \/ LinkStart
  \/ Merge
  \/ Dedup
  \/ S2Reply
  \/ Rank

SpecPool == InitPool /\ [][NextPool]_vars

\* The bound the specification gives for the pool of the request.
PoolBound == Min(PoolCap, Max(PoolFloor, (req.start + req.max) * PoolFactor))

\* a is before b in the order of the request's sort mode.
SortedBefore(a, b) ==
  IF req.sortBy = "citations"
  THEN CitationsNotAfter(a, b) /\ ~CitationsNotAfter(b, a)
  ELSE DateNotAfter(a, b) /\ ~DateNotAfter(b, a)

\* The number of records of the pool before p in the order of the sort mode.
PoolRank(p) == Cardinality({ j \in 1..Len(pool) : SortedBefore(pool[j], p) })

\* The pool has been cut from the merged candidates.
PoolCut == pc \in { "awaitS2", "rank", "done" }

OrdersOf(s) ==
  { [ i \in 1..Len(s) |-> s[f[i]] ] :
      f \in { g \in [ 1..Len(s) -> 1..Len(s) ] :
                \A i, j \in 1..Len(s) : g[i] = g[j] => i = j } }

\* C20: in citations mode and in the date modes the ranked order depends only
\* on the set of records of the pool: every permutation of the pool is ranked
\* into the sequence that was served.  Violated: the comparators return 0 for
\* two records that agree on the counts, the date and the lower-cased key, and
\* the sort keeps such records in the order it was given them.
C20_RankingDeterministic ==
  (Served /\ req.sortBy # "relevance") =>
    \A perm \in OrdersOf(pool) :
      rerankWithCitations(perm, req.sortBy, req.sortOrder) = response

\* C20, the failing case: a served pool of two different records with the same
\* DOI, counts and date, which is served in the order it came in while the
\* same pool in the other order is ranked into the other order.
C20_SameDoiKeepsInputOrder ==
  /\ Served
  /\ req.sortBy = "citations"
  /\ Len(pool) = 2
  /\ pool[1] # pool[2]
  /\ LexKey(pool[1]) = LexKey(pool[2])
  /\ response = pool
  /\ rerankWithCitations(<< pool[2], pool[1] >>, req.sortBy, req.sortOrder)
       = << pool[2], pool[1] >>

\* Pools in which no two different records have the same lower-cased key are
\* ranked into one sequence whatever their order.
DistinctKeysRankedAlike ==
  (/\ Served
   /\ req.sortBy # "relevance"
   /\ \A i, j \in 1..Len(pool) :
        pool[i] # pool[j] => LexKey(pool[i]) # LexKey(pool[j])) =>
    \A perm \in OrdersOf(pool) :
      rerankWithCitations(perm, req.sortBy, req.sortOrder) = response

(***************************************************************************)
(* The rows the works-index adapter returns (route.ts 310-314, 387-446).   *)
(***************************************************************************)

\* The answers to the works page requests, in the order of the requests.
PageAnswers == SelectSeq(replies, LAMBDA r : r.to = "works")

\* The pages that were requested and answered with a success status.
PagesRead ==
  { PageCalls[i].arg : i \in { j \in 1..Len(PageCalls) :
                                 j <= Len(PageAnswers) /\ PageAnswers[j].outcome = "ok" } }

\* The upstream page of the row of rank r (ranks count from 0), and the row:
\* row r mod 25 of that page.
PageOfRank(r) == (r \div PerPage) + 1
RowOfRank(r) == WorksPage(env.works, PageOfRank(r))[(r % PerPage) + 1]

\* The row of rank r has a landing page, a DOI or an id to land on.
CanLand(r) ==
  LET it == env.works[r + 1]
  IN  Trim(it.landing) # << >> \/ Trim(it.doi) # << >> \/ Trim(it.id) # << >>

\* The ranks of the window [offset, offset + limit), in order, whose rows the
\* index has, on the pages read, with something to land on.
ReturnedRanks(read) ==
  SelectSeq([ k \in 1..req.max |-> req.start + k - 1 ],
            LAMBDA r : r < Len(env.works) /\ PageOfRank(r) \in read /\ CanLand(r))

\* C21: the works-index adapter, asked for offset s and limit m, returns the
\* mapped upstream rows of the ranks s..s+m-1, in rank order, rank r being row
\* r mod 25 of upstream page r div 25 + 1; it returns fewer than m rows only
\* when the index runs out of rows, a page request was answered with a
\* non-success status, the page cap was reached, or a row of the window has
\* nothing to land on.
C21_AdapterWindow ==
  AdapterReturned =>
    LET ranks == ReturnedRanks(PagesRead)
    IN  /\ openalexRaw = [ k \in 1..Len(ranks) |-> MapWork(RowOfRank(ranks[k])) ]
        /\ Len(openalexRaw) < req.max =>
             \/ Len(env.works) < req.start + req.max
             \/ Answered("works", "nonok")
             \/ Len(PageCalls) > PageCap
             \/ \E r \in req.start..(req.start + req.max - 1) :
                  r < Len(env.works) /\ ~CanLand(r)

\* C21, its case: a window that starts at the last row of the first page and
\* ends at the last row of the second is returned whole, its second record
\* mapped from a row without a landing page.
C21_WindowOverTwoPages ==
  /\ AdapterReturned
  /\ req.start = PerPage - 1
  /\ req.max = PerPage + 1
  /\ Len(PageCalls) = 2
  /\ Len(openalexRaw) = req.max
  /\ openalexRaw[1] = MapWork(env.works[PerPage])
  /\ openalexRaw[2].absUrl = env.works[PerPage + 1].id

(***************************************************************************)
(* The citation-service key of a record (route.ts 171-189, 693-706).       *)
(***************************************************************************)

\* The DOI found in the landing URL or, failing that, in the PDF URL, and the
\* landing URL or, failing that, the PDF URL.
DoiOfUrls(p) == OrElse(extractDoiFromUrl(p.absUrl), extractDoiFromUrl(p.pdfUrl))
UrlOf(p) == OrElse(p.absUrl, p.pdfUrl)

\* The key by priority; native is the key of a native record without a DOI.
KeyByPriority(p, native) ==
  IF p.doi # << >> THEN S_DOI \o p.doi
  ELSE IF p.source = "arxiv" THEN native
  ELSE IF DoiOfUrls(p) # << >> THEN S_DOI \o DoiOfUrls(p)
  ELSE IF UrlOf(p) # << >> THEN S_URL \o UrlOf(p)
  ELSE << >>

\* The keys of the pool are those of the priority, and a served record
\* without a key has no citation field.
KeysByPriority(Native(_)) ==
  /\ PoolCut =>
       \A i \in 1..Len(pool) : s2Ids[i] = KeyByPriority(pool[i], Native(pool[i]))
  /\ Served =>
       \A i \in 1..Len(pool) : s2Ids[i] = << >> => ~HasCit(pool[i]) /\ ~HasInf(pool[i])

\* C22 as stated: the key is DOI:<doi> for a record with a DOI, else
\* ARXIV:<version-stripped id> for a native record, else DOI:<doi> with the DOI
\* of the landing or the PDF URL, else URL:<landing or PDF URL>, else none, and
\* a record with no key gets no citation field.  Violated: a native record
\* whose version-stripped id is empty has no key.
C22_KeyByStrictPriority ==
  LET Native(p) == S_ARXIV \o stripArxivVersion(p.arxivId)
  IN  KeysByPriority(Native)

\* C22, amended: as stated, but a native record without a DOI has the key
\* ARXIV:<version-stripped id> only if that id is not empty, and no key
\* otherwise.
C22_KeyByPriorityOfNonEmpty ==
  LET Native(p) == IF stripArxivVersion(p.arxivId) # << >>
                   THEN S_ARXIV \o stripArxivVersion(p.arxivId)
                   ELSE << >>
  IN  KeysByPriority(Native)

\* C22, its case: a served pool with a record keyed by its DOI that has been
\* given a citation count, a works record keyed by its URL, and a native
\* record with no DOI and an empty version-stripped id, which has no key and
\* no citation field.
C22_KeyedAndKeyless ==
  /\ Served
  /\ \E i, j, k \in 1..Len(pool) :
       /\ pool[i].doi # << >> /\ s2Ids[i] = S_DOI \o pool[i].doi /\ HasCit(pool[i])
       /\ pool[j].source = "arxiv" /\ pool[j].doi = << >>
       /\ stripArxivVersion(pool[j].arxivId) = << >>
       /\ s2Ids[j] = << >> /\ ~HasCit(pool[j])
       /\ pool[k].source = "openalex" /\ s2Ids[k] = S_URL \o pool[k].absUrl

\* A served native record without a DOI that is keyed by its id, stripped of
\* its version.
NativeRecordKeyedById ==
  /\ Served
  /\ \E j \in 1..Len(pool) :
       /\ pool[j].source = "arxiv" /\ pool[j].doi = << >>
       /\ s2Ids[j] = S_ARXIV \o stripArxivVersion(pool[j].arxivId)
       /\ stripArxivVersion(pool[j].arxivId) # pool[j].arxivId

\* No record of a pool comes to the third step of the priority with a DOI in
\* its URLs: the works-index adapter has taken the DOI out of the landing URL.
NoDoiLeftInUrls ==
  PoolCut =>
    \A i \in 1..Len(pool) :
      (pool[i].doi = << >> /\ pool[i].source # "arxiv") => DoiOfUrls(pool[i]) = << >>

(***************************************************************************)
(* The outbound calls of one request (route.ts 531-713).                   *)
(***************************************************************************)

\* The services that are called at most once in a request.
SingleCallServices == { "arxiv", "lookup", "authors", "s2" }

\* C23: within one request there is at most one native-feed search call, one
\* batched lookup-by-id call, one author sub-lookup call and one batched
\* citation-service call, and no works page number is requested twice; every
\* answer is the answer to the call of its position, and a call that was
\* answered with a failure is not issued again.
C23_NoRetries ==
  /\ \A s \in SingleCallServices : CallsTo({ s }) <= 1
  /\ \A i, j \in 1..Len(calls) :
       (calls[i].to = "works" /\ calls[j].to = "works" /\ calls[i].arg = calls[j].arg)
         => i = j
  /\ Len(replies) <= Len(calls)
  /\ \A k \in 1..Len(replies) :
       /\ replies[k].to = calls[k].to
       /\ replies[k].outcome # "ok" => \A j \in (k + 1)..Len(calls) : calls[j] # calls[k]

\* C23, its case: a served author-field request that made one call of each
\* kind and asked for two works pages, the second of which was answered with
\* a non-success status.
C23_EveryCallOnce ==
  /\ Served
  /\ \A s \in SingleCallServices : CallsTo({ s }) = 1
  /\ CallsTo({ "works" }) = 2
  /\ replies[Len(replies) - 2] = Reply("works", "nonok")

(***************************************************************************)
(* The order of the stages of one request (route.ts 576-713).              *)
(***************************************************************************)

\* Every call issued so far has been answered.
AllAnswered == Len(replies) = Len(calls)

\* The calls to one of these services have all been answered.
AnsweredAll(services) == AnswersFrom(services) = CallsTo(services)

\* C24: the stages after the adapters are sequential.  The batched lookup is
\* issued only when every call of the works-index adapter has been answered;
\* the citation-service call is issued only when the lookup has been answered
\* and linking and deduplication are complete (no record of the deduplicated
\* list points at a native paper and no two have the same id); no call of an
\* earlier stage follows a call of a later one; and there is a response only
\* when the citation-service call, if one was issued, has been answered.
C24_StagesSequential ==
  /\ Issued({ "lookup" }) => AnsweredAll(WorksServices)
  /\ Issued({ "s2" }) =>
       /\ AnsweredAll({ "lookup" })
       /\ AnsweredAll(WorksServices)
       /\ NoDuplicateIds(out)
       /\ \A i \in 1..Len(out) : ~PointsAtNative(out[i])
       /\ \A i \in 1..Len(pool) : pool[i] \in Range(out) \/ Served
  /\ \A i, j \in 1..Len(calls) :
       i < j =>
         /\ calls[i].to = "lookup" => calls[j].to \notin WorksServices
         /\ calls[i].to = "s2" => calls[j].to \notin WorksServices \cup { "lookup" }
  /\ (Served \/ response # << >>) => AnsweredAll({ "s2" })

\* C24, its case: a request served after its works page, then its lookup,
\* then its citation-service call, which was answered with a non-success
\* status.
C24_ServedAfterFailedCitations ==
  /\ Served
  /\ response # << >>
  /\ \E i \in 1..(Len(calls) - 1) : calls[i].to = "works" /\ calls[i + 1].to = "lookup"
  /\ \E i \in 1..(Len(calls) - 1) : calls[i].to = "lookup" /\ calls[i + 1].to = "s2"
  /\ replies[Len(replies)] = Reply("s2", "nonok")
  /\ AllAnswered

(***************************************************************************)
(* The author filter on both sources (route.ts 559, 629).                  *)
(***************************************************************************)

\* The record passes the author filter of the request.
PassesAuthorFilter(p) == authorMatchesQuery(p.authors, qq)

\* C25: with the field selector author, every record that is merged and every
\* record of the response passes the author filter for the query, the native
\* records the linker put in the place of works records included; with any
\* other field selector the filter removes nothing: every parsed native
\* record and every record the linker lets through is merged.
C25_AuthorFilterOnBothSources ==
  IF req.field = "author"
  THEN /\ \A i \in 1..Len(papersFiltered) : PassesAuthorFilter(papersFiltered[i])
       /\ \A i \in 1..Len(mixed) : PassesAuthorFilter(mixed[i])
       /\ \A i \in 1..Len(response) : PassesAuthorFilter(response[i])
  ELSE /\ pc \notin { "start", "awaitArxiv", "error" } => papersFiltered = papers
       /\ Linked =>
            /\ openalex = LinkAndFilter(openalexRaw, oaArxivPapers, seen)
            /\ Len(mixed) = Len(papers) + Len(openalex)

\* C25, its case: an author-field request is served with a native record the
\* linker put in the place of a works record, while another native record the
\* lookup returned, by other authors, is in no merged list.
C25_SubstituteFiltered ==
  /\ Served
  /\ req.field = "author"
  /\ \E i \in 1..Len(response), k \in 1..Len(oaArxivPapers) :
       /\ response[i].source = "arxiv"
       /\ response[i].arxivId = oaArxivPapers[k].arxivId
       /\ \A j \in 1..Len(papers) : papers[j].arxivId # response[i].arxivId
  /\ \E k \in 1..Len(oaArxivPapers) :
       /\ ~PassesAuthorFilter(oaArxivPapers[k])
       /\ \A j \in 1..Len(mixed) : mixed[j].arxivId # oaArxivPapers[k].arxivId
       /\ \E j \in 1..Len(openalexRaw) :
            PassesAuthorFilter(openalexRaw[j])
              /\ LinkKey(LinkedIdRaw(openalexRaw[j])) = LinkKey(oaArxivPapers[k].arxivId)

(***************************************************************************)
(* The identity normalisers under repeated application                     *)
(* (route.ts 32-48, 130-133).                                              *)
(***************************************************************************)

\* Longest input string.
MaxText == 5

\* Applications of one normaliser to one input.
MaxApplications == 2

Normalisers == { "normUrl", "normTitle", "stripArxivVersion" }

\* The characters of the inputs: the ones each normaliser treats apart.
NormChars ==
  [ fn \in Normalisers |->
      CASE fn = "normUrl" -> { "V", "1", " ", "/", "#", "?" }
        [] fn = "normTitle" -> { "V", "1", " ", "-" }
        [] fn = "stripArxivVersion" -> { "v", "V", "1", " " } ]

\* The strings of at most n of the characters.
RECURSIVE TextsOf(_, _)
TextsOf(chars, n) ==
  IF n = 0 THEN { << >> }
  ELSE LET shorter == TextsOf(chars, n - 1)
       IN  shorter \cup { Append(t, c) : t \in { x \in shorter : Len(x) = n - 1 }, c \in chars }

NormInputs == [ fn \in Normalisers |-> TextsOf(NormChars[fn], MaxText) ]

InitNorm ==
  /\ req = DedupRequest
  /\ env = QuietEnv
  /\ pc = "done"
  /\ calls = << >>
  /\ papers = << >>
  /\ papersFiltered = << >>
  /\ arxivSortTs = << >>
  /\ seen = {}
  /\ collected = << >>
  /\ pageNum = 0
  /\ openalexRaw = << >>
  /\ oaArxivPapers = << >>
  /\ openalex = << >>
  /\ mixed = << >>
  /\ out = << >>
  /\ pool = << >>
  /\ s2Ids = << >>
  /\ s2Map = << >>
  /\ response = << >>
  /\ replies = << >>
  /\ history = << >>
  /\ SummaryIdle
  /\ \E fn \in Normalisers :
       \E t \in NormInputs[fn] : norm = [ fn |-> fn, values |-> << t >> ]

\* The normaliser is applied to its own last result.
Renormalise(fn, result) ==
  /\ norm.fn = fn
  /\ Len(norm.values) <= MaxApplications
  /\ norm' = [ norm EXCEPT !.values = Append(@, result) ]
  /\ UNCHANGED << searchVars, summaryVars >>

ApplyNormUrl == Renormalise("normUrl", normUrl(norm.values[Len(norm.values)]))

ApplyNormTitle == Renormalise("normTitle", normTitle(norm.values[Len(norm.values)]))

ApplyStripArxivVersion ==
  Renormalise("stripArxivVersion", stripArxivVersion(norm.values[Len(norm.values)]))

NextNorm ==
  \/ ApplyNormUrl
  \/ ApplyNormTitle
  \/ ApplyStripArxivVersion

SpecNorm == InitNorm /\ [][NextNorm]_vars

\* The normaliser was applied twice to the input.
AppliedTwice(fn) == norm.fn = fn /\ Len(norm.values) >= 3

\* The second application changed nothing.
SecondChangesNothing == norm.values[3] = norm.values[2]

\* C26: every identity normaliser is idempotent: for every input string,
\* normalising the normalised URL, the normalised title or the
\* version-stripped id a second time gives the same string again.
C26_NormalisersIdempotent ==
  \A fn \in Normalisers : AppliedTwice(fn) => SecondChangesNothing

\* C26, its case: the id "1v1v1" loses one version marker at each application.
C26_StripsOneMarkerAtATime ==
  /\ AppliedTwice("stripArxivVersion")
  /\ Take(norm.values, 3) = << << "1", "v", "1", "v", "1" >>, << "1", "v", "1" >>, << "1" >> >>

\* The URL "1//" loses one trailing slash at each application.
NormUrlDropsOneSlashAtATime ==
  /\ AppliedTwice("normUrl")
  /\ Take(norm.values, 3) = << << "1", "/", "/" >>, << "1", "/" >>, << "1" >> >>

\* The title "1 - 1" keeps both blanks around the removed hyphen at the first
\* application and has them collapsed at the second.
NormTitleCollapsesAfterRemoval ==
  /\ AppliedTwice("normTitle")
  /\ Take(norm.values, 3) = << << "1", " ", "-", " ", "1" >>, << "1", " ", " ", "1" >>,
                      << "1", " ", "1" >> >>

\* Where the second application changes the result, it is of a title with a
\* blank next to a removed character, of a URL that ends with a slash or a
\* blank after the first, or of an id that ends with a version marker or a
\* blank after the first.
SecondChangesOnlyThese ==
  (Len(norm.values) >= 3 /\ ~SecondChangesNothing) =>
    LET once == norm.values[2]
    IN  CASE norm.fn = "normTitle" -> \E i \in 1..(Len(once) - 1) : once[i] = " " /\ once[i + 1] = " "
          [] norm.fn = "normUrl" -> once # << >> /\ once[Len(once)] \in { "/", " " }
          [] norm.fn = "stripArxivVersion" ->
               once # << >> /\ (once[Len(once)] = " " \/ StripVersion(once) # once)

(***************************************************************************)
(* What the final pass drops (route.ts 646-689).                           *)
(***************************************************************************)

\* Two records have the same id whatever the case, the same normalised
\* landing URL, or the same normalised title that is not empty.
SharesIdentity(a, b) ==
  \/ ToLower(a.arxivId) = ToLower(b.arxivId)
  \/ normUrl(a.absUrl) = normUrl(b.absUrl)
  \/ normTitle(a.title) # << >> /\ normTitle(a.title) = normTitle(b.title)

\* C27: the final pass drops a record only when the output retains a record
\* with the same id, the same normalised landing URL or the same non-empty
\* normalised title; a record that shares none of these with a retained
\* record, a record with an empty title or a title without ASCII letters or
\* digits included, is kept.
C27_DroppedOnlyForSharedIdentity ==
  Deduplicated =>
    \A i \in 1..Len(mixed) :
      \/ mixed[i] \in Range(out)
      \/ \E j \in 1..Len(out) : SharesIdentity(out[j], mixed[i])

\* C27, the failing case: the merged list is one native record with an empty
\* title, and the output is empty.
C27_EmptyTitleRecordDropped ==
  /\ Deduplicated
  /\ mixed = << ParseEntry(E5) >>
  /\ mixed[1].title = << >>
  /\ out = << >>

\* Two records with different ids, different URLs and titles "!" and "?":
\* the second is dropped, as both titles give the key "title:".
SymbolTitleRecordDropped ==
  /\ Deduplicated
  /\ mixed = << ParseEntry(E6), MapWork(W8) >>
  /\ ~SharesIdentity(mixed[1], mixed[2])
  /\ out = << ParseEntry(E6) >>

\* A record shares one of the keys of the pass with another record of the
\* merged list.
SharesKey(a, b) ==
  { KeyIdOf(a), KeyUrlOf(a), KeyTitleOf(a) } \cap { KeyIdOf(b), KeyUrlOf(b), KeyTitleOf(b) }
    # { << >> }
  /\ { KeyIdOf(a), KeyUrlOf(a), KeyTitleOf(a) } \cap { KeyIdOf(b), KeyUrlOf(b), KeyTitleOf(b) }
    # {}

\* What holds of the pass: a record that is not in the output has an empty
\* key or shares a key with another record of the merged list.
DroppedForKeyOrEmptyKey ==
  Deduplicated =>
    \A i \in 1..Len(mixed) :
      \/ mixed[i] \in Range(out)
      \/ << >> \in { KeyIdOf(mixed[i]), KeyUrlOf(mixed[i]), KeyTitleOf(mixed[i]) }
      \/ \E j \in 1..Len(mixed) : j # i /\ SharesKey(mixed[i], mixed[j])

(***************************************************************************)
(* The date order of the merged list and the cut of the pool               *)
(* (route.ts 631-644, 691-708).                                            *)
(***************************************************************************)

\* A preprint of 2019, which is not in the long feed.
E7 ==
  [ id |-> << "h", "t", "t", "p", ":", "/", "/", "a", "r", "x", "i", "v", ".", "o", "r", "g", "/", "a", "b", "s", "/", "9", "9", "v", "1" >>,
    title |-> << "T", " ", "w" >>,
    summary |-> << >>,
    published |-> << "2", "0", "1", "9" >>,
    updated |-> << >>,
    names |-> << << "A", " ", "B" >> >>,
    doi |-> << >> ]

\* The works row of the preprint: its landing page is the preprint's.
W9 ==
  [ id |-> << "W", "9" >>,
    display_name |-> << "T", " ", "w" >>,
    names |-> << << "A", " ", "B" >> >>,
    publication_date |-> << "2", "0", "1", "9" >>,
    inv |-> << >>,
    landing |-> << "h", "t", "t", "p", "s", ":", "/", "/", "a", "r", "x", "i", "v", ".", "o", "r", "g", "/", "a", "b", "s", "/", "9", "9" >>,
    doi |-> << >> ]

\* The works row of the journal version of 2022: same title, another landing
\* page.
W10 ==
  [ id |-> << "W", "1", "0" >>,
    display_name |-> << "T", " ", "w" >>,
    names |-> << << "A", " ", "B" >> >>,
    publication_date |-> << "2", "0", "2", "2" >>,
    inv |-> << >>,
    landing |-> << "h", "t", "t", "p", "s", ":", "/", "/", "j", ".", "o", "r", "g", "/", "t" >>,
    doi |-> << >> ]

\* The long feed beside a works index that has a preprint and its journal
\* version.
TwinEnv ==
  [ feed |-> [ i \in 1..LongFeedLen |-> LongFeedEntry(i) ],
    catalog |-> << E7 >>,
    works |-> << W9, W10 >>,
    s2 |-> S2TableLong,
    faults |-> NoFaults ]

\* Requests in every mode but relevance and both directions, for the first
\* records and for a window further on; the pool of each is the smallest.
TwinWindows == { << 0, 1 >>, << 2, 3 >> }

TwinRequests ==
  { [ q |-> << "b" >>, max |-> w[2], start |-> w[1], field |-> "smart",
      sortBy |-> s, sortOrder |-> o ] :
      w \in TwinWindows, s \in SortKeys \ { "relevance" }, o \in SortOrders }

InitTwin ==
  /\ req \in TwinRequests
  /\ env = TwinEnv
  /\ pc = "start"
  /\ calls = << >>
  /\ papers = << >>
  /\ papersFiltered = << >>
  /\ arxivSortTs = << >>
  /\ seen = {}
  /\ collected = << >>
  /\ pageNum = 0
  /\ openalexRaw = << >>
  /\ oaArxivPapers = << >>
  /\ openalex = << >>
  /\ mixed = << >>
  /\ out = << >>
  /\ pool = << >>
  /\ s2Ids = << >>
  /\ s2Map = << >>
  /\ response = << >>
  /\ replies = << >>
  /\ history = << >>
  /\ SummaryIdle
  /\ norm = NormIdle

NextTwin ==
  \/ Begin
  \/ ArxivReply
  \/ OpenAlexStart
  \/ PageReply
  \/ LinkStart
  \/ LookupReply
  \/ Merge
  \/ Dedup
  \/ S2Reply
  \/ Rank

SpecTwin == InitTwin /\ [][NextTwin]_vars

\* The merge has run.
Merged == pc \in { "dedup", "awaitS2", "rank", "done" }

\* Record a has its place strictly before record b in the requested direction
\* of the timestamps of the merge.
TsBefore(a, b) ==
  IF req.sortOrder = "ascending"
  THEN MergeTs(a, arxivSortTs) < MergeTs(b, arxivSortTs)
  ELSE MergeTs(b, arxivSortTs) < MergeTs(a, arxivSortTs)

\* No record of the list stands before a record that the direction puts
\* before it.
InDateOrder(list) ==
  \A i, j \in 1..Len(list) : i < j => ~TsBefore(list[j], list[i])

\* The size of the pool of the request.
PoolSize == CandidateMax(req.sortBy, startN, maxN)

\* The records of the pool are the first PoolSize records of the deduplicated
\* list, whatever the citation service answered.
PoolIsPrefixOfOut ==
  /\ Len(pool) = Min(Len(out), PoolSize)
  /\ \A i \in 1..Len(pool) :
       /\ pool[i].arxivId = out[i].arxivId
       /\ pool[i].absUrl = out[i].absUrl
       /\ pool[i].published = out[i].published

\* No record left out of the pool has its place in date order before a
\* record of the pool.
PoolIsFirstInDateOrder ==
  \A i, j \in 1..Len(out) :
    (i <= PoolSize /\ j > PoolSize) => ~TsBefore(out[j], out[i])

\* C28: in every mode but relevance, citations included, the merged list is
\* in timestamp order in the requested direction before the final pass and
\* the cut; when more records survive the final pass than the pool holds,
\* the pool is made of the first records in date order; the citation counts,
\* fetched afterwards, have no influence on which records are in the pool.
C28_PoolIsFirstInDateOrder ==
  GlobalMode(req.sortBy) =>
    /\ Merged => InDateOrder(mixed)
    /\ PoolCut => PoolIsPrefixOfOut /\ PoolIsFirstInDateOrder

\* C28, the failing case: more records survive the final pass than the pool
\* holds, and a record left out has its place in date order before a record
\* of the pool, which is a native record in the place of a works record.
C28_LaterRecordInPool ==
  /\ GlobalMode(req.sortBy)
  /\ Served
  /\ Len(out) > PoolSize
  /\ \E i, j \in 1..Len(out) :
       /\ i <= PoolSize
       /\ j > PoolSize
       /\ TsBefore(out[j], out[i])
       /\ out[i].source = "arxiv"
       /\ \E k \in 1..Len(mixed) : mixed[k].source = "openalex" /\ Collide(mixed[k], out[i])

\* What holds of the merge and the cut: the merged list is in timestamp
\* order and the pool is the first records of the deduplicated list,
\* whatever the citation service answered.
MergedInOrderAndPoolCutFirst ==
  GlobalMode(req.sortBy) =>
    /\ Merged => InDateOrder(mixed)
    /\ PoolCut => PoolIsPrefixOfOut

\* What holds of the deduplicated list: two of its records are out of date
\* order only when one of them is a native record that collides with a works
\* record of the merged list, whose place it took.
OutOfOrderOnlyByReplacement ==
  (GlobalMode(req.sortBy) /\ Deduplicated) =>
    \A i, j \in 1..Len(out) :
      (i < j /\ TsBefore(out[j], out[i])) =>
        \E n \in { i, j } :
          /\ out[n].source = "arxiv"
          /\ \E k \in 1..Len(mixed) : mixed[k].source = "openalex" /\ Collide(mixed[k], out[n])

\* The deduplicated list is out of date order.
OutOfDateOrder == GlobalMode(req.sortBy) /\ Deduplicated /\ ~InDateOrder(out)

(***************************************************************************)
(* The window of a relevance request (route.ts 22-30, 519-522, 633-636,    *)
(* 691-713): requests for several windows against a feed and a works index *)
(* longer than any of them.                                                *)
(***************************************************************************)

\* The length of the feed and of the works index.
WindowFeedLen == 7

\* <<start, max>> of the requests.
RelevanceWindows == { << 0, 1 >>, << 0, 2 >>, << 1, 3 >>, << 2, 3 >>, << 3, 4 >> }

WindowRequests ==
  { [ q |-> << "b" >>, max |-> w[2], start |-> w[1], field |-> "smart",
      sortBy |-> "relevance", sortOrder |-> o ] :
      w \in RelevanceWindows, o \in SortOrders }

\* A works row with the title of the native paper 3.
TitleTwinWork ==
  [ LongWork(3) EXCEPT !.display_name = << "p" >> \o Digits(3) ]

\* The citation service knows the native papers 2 and 4 as cited.
S2TableWindow ==
  [ k \in { S_ARXIV \o Digits(2), S_ARXIV \o Digits(4) } |->
      IF k = S_ARXIV \o Digits(4) THEN S2Item(<< 5 >>, << 1 >>) ELSE S2Item(<< 1 >>, << 0 >>) ]

\* The long feed beside a works index of as many rows, none of which collides
\* with a native paper; the same with a works row that has the title of a
\* native paper; the same with a feed entry that has no title.
WindowEnvs ==
  { [ feed |-> [ i \in 1..WindowFeedLen |->
                   IF i = 3 /\ kind = "untitled"
                   THEN [ LongFeedEntry(i) EXCEPT !.title = << >> ]
                   ELSE LongFeedEntry(i) ],
      catalog |-> NativeEntries,
      works |-> [ i \in 1..WindowFeedLen |->
                    IF i = 3 /\ kind = "twin" THEN TitleTwinWork ELSE LongWork(i) ],
      s2 |-> S2TableWindow,
      faults |-> NoFaults ] : kind \in { "apart", "twin", "untitled" } }

InitWindow ==
  /\ req \in WindowRequests
  /\ env \in WindowEnvs
  /\ pc = "start"
  /\ calls = << >>
  /\ papers = << >>
  /\ papersFiltered = << >>
  /\ arxivSortTs = << >>
  /\ seen = {}
  /\ collected = << >>
  /\ pageNum = 0
  /\ openalexRaw = << >>
  /\ oaArxivPapers = << >>
  /\ openalex = << >>
  /\ mixed = << >>
  /\ out = << >>
  /\ pool = << >>
  /\ s2Ids = << >>
  /\ s2Map = << >>
  /\ response = << >>
  /\ replies = << >>
  /\ history = << >>
  /\ SummaryIdle
  /\ norm = NormIdle

NextWindow ==
  \/ Begin
  \/ ArxivReply
  \/ OpenAlexStart
  \/ PageReply
  \/ LinkStart
  \/ Merge
  \/ Dedup
  \/ S2Reply
  \/ Rank

SpecWindow == InitWindow /\ [][NextWindow]_vars

\* The ids of the first n records of a list.
FirstIds(list, n) == { list[i].arxivId : i \in 1..Min(n, Len(list)) }

\* No record of the merged list lacks a key of the final pass, and no two
\* share one.
MutuallyApart ==
  \A i \in 1..Len(mixed) :
    /\ << >> \notin { KeyIdOf(mixed[i]), KeyUrlOf(mixed[i]), KeyTitleOf(mixed[i]) }
    /\ \A j \in 1..Len(mixed) : j # i => ~SharesKey(mixed[i], mixed[j])

\* Both sources returned as many records as the request's limit.
BothSourcesFull == Len(papersFiltered) = maxN /\ Len(openalex) = maxN

UntitledShiftsSplit ==
  /\ Served
  /\ req.sortBy = "relevance"
  /\ BothSourcesFull
  /\ ~MutuallyApart
  /\ \E i \in 1..Len(mixed) : mixed[i].title = << >>
  /\ Len(response) = maxN
  /\ FirstIds(response, Len(response))
       # FirstIds(papersFiltered, (maxN + 1) \div 2) \cup FirstIds(openalex, maxN \div 2)

(***************************************************************************)
(* The relevance ranking of a pool without citations (route.ts 237-239,    *)
(* 286-300).                                                               *)
(***************************************************************************)

\* No record of the pool has a positive citation count.
NoPositiveCount == \A i \in 1..Len(pool) : CitOrZero(pool[i]) <= 0

\* C30: in relevance mode, when no record of the pool has a positive
\* citation count (the citation service failed, returned nothing or returned
\* only zeros), the ranker returns the pool unchanged, in its interleaved,
\* deduplicated order.
C30_UncitedPoolUnchanged ==
  (Served /\ req.sortBy = "relevance" /\ NoPositiveCount) => response = pool

\* C30, its case: a relevance request is served from a pool of three
\* different records, one with the count zero and one with no count, and the
\* response is the pool.
C30_UncitedPoolServed ==
  /\ Served
  /\ req.sortBy = "relevance"
  /\ NoPositiveCount
  /\ Len(pool) = 3
  /\ Cardinality(Range(pool)) = 3
  /\ \E i \in 1..3 : HasCit(pool[i]) /\ pool[i].citationCount = 0
  /\ \E i \in 1..3 : ~HasCit(pool[i])
  /\ response = pool

\* Through the handler: when the citation service fails or knows no record of
\* the pool as cited, the response follows the deduplicated list.
UncitedServedInDedupOrder ==
  (Served /\ req.sortBy = "relevance" /\ NoPositiveCount) =>
    /\ Len(response) = Min(maxN, Len(out))
    /\ \A i \in 1..Len(response) :
         response[i].arxivId = out[i].arxivId /\ response[i].absUrl = out[i].absUrl

\* A relevance request is served in the deduplicated order after the
\* citation service failed.
UncitedAfterFailedLookup ==
  /\ Served
  /\ req.sortBy = "relevance"
  /\ Answered("s2", "nonok")
  /\ Len(response) >= 2
  /\ \A i \in 1..Len(response) : response[i].arxivId = out[i].arxivId

====
